---------------------------- MODULE Spec2Model ----------------------------
(***************************************************************************)
(* MedAssist record store: the patient / consultation data layer of        *)
(* src/database.py behind the request handlers of src/backend.py.          *)
(*                                                                         *)
(* The committed tables are the variables patients, consultations,         *)
(* symptoms, prescriptions and diagnostic_tests.  Every HTTP request, and  *)
(* every direct call of a CRUD method, runs in one slot of req: it owns    *)
(* one SQLAlchemy session (get_db), walks through the statements of its    *)
(* handler (pc) and ends with the session closed.  Statements of           *)
(* different requests interleave; one statement is atomic.                 *)
(*                                                                         *)
(* Strings are tuples of one-character strings, so that LIKE matching and  *)
(* case folding are computed and not assumed.  SQL NULL / Python None is   *)
(* the value NULL for strings and None (0) for row ids.                    *)
(***************************************************************************)
EXTENDS Integers, Sequences, FiniteSets, TLC

VARIABLES patients, nextPatientId, consultations, nextConsultationId,
          symptoms, nextSymptomId, prescriptions, nextPrescriptionId,
          diagnostic_tests, nextDiagnosticTestId, now, req

vars == <<patients, nextPatientId, consultations, nextConsultationId,
          symptoms, nextSymptomId, prescriptions, nextPrescriptionId,
          diagnostic_tests, nextDiagnosticTestId, now, req>>

(***************************************************************************)
(* Bounds of the model.                                                    *)
(***************************************************************************)
\* patient rows the concurrent specification may insert
MaxPatients == 2
\* patient rows the listing specification may insert
MaxListPatients == 3
\* patient rows the search specification may insert
MaxSearchPatients == 2
\* consultation rows (flushed ids) a specification may create
MaxConsultations == 2
\* ticks of the clock behind datetime.utcnow()
MaxTime == 1

\* the concurrent callers, and the single caller of the sequential specifications
Reqs == {"r1", "r2"}
OneReq == {"r1"}

(***************************************************************************)
(* Values.                                                                 *)
(***************************************************************************)
NULL == <<"NULL">>
None == 0

\* Query(100, ge=1, le=500) of list_patients
MaxListLimit == 500
\* Query(50, ge=1, le=200) of get_patient_consultations
MaxConsultationLimit == 200
\* Query(20, ge=1, le=100) of recent_consultations
MaxRecentLimit == 100

Min(a, b) == IF a < b THEN a ELSE b

\* str.lower() / the case folding of ILIKE, on the letters the model uses
Lower(c) ==
    CASE c = "J" -> "j"
      [] c = "O" -> "o"
      [] c = "A" -> "a"
      [] OTHER   -> c

\* a session slot that runs no request
IdleReq ==
    [op |-> "idle", pc |-> "idle", arg |-> [none |-> TRUE],
     loc |-> [none |-> TRUE], res |-> [status |-> 0], session |-> "none"]

\* a handler may start in a slot whose previous request is over
Free(r) == req[r].pc \in {"idle", "done"}

\* get_db: SessionLocal() before the handler body runs
Started(o, a, p, l) ==
    [op |-> o, pc |-> p, arg |-> a, loc |-> l, res |-> [status |-> 0],
     session |-> "open"]

\* the handler returns (or raises HTTPException) with response s; the session
\* is still open until get_db's finally clause runs
Returned(o, a, l, s) ==
    [op |-> o, pc |-> "return", arg |-> a, loc |-> l, res |-> s,
     session |-> "open"]

(***************************************************************************)
(* Birth dates: datetime.strptime(v, "%Y-%m-%d").  A string is a tuple of  *)
(* characters, a date the tuple <<year, month, day>>.                       *)
(***************************************************************************)
Digits == <<"0", "1", "2", "3", "4", "5", "6", "7", "8", "9">>

IsDigit(c) == \E n \in 1..10 : Digits[n] = c

DigitValue(c) == (CHOOSE n \in 1..10 : Digits[n] = c) - 1

RECURSIVE Number(_)
Number(f) ==
    IF f = <<>> THEN 0
    ELSE 10 * Number(SubSeq(f, 1, Len(f) - 1)) + DigitValue(f[Len(f)])

AllDigits(f) == \A i \in 1..Len(f) : IsDigit(f[i])

\* %Y: exactly four digits
YearField(f) == Len(f) = 4 /\ AllDigits(f)

\* %m: 1[0-2] | 0[1-9] | [1-9]
MonthField(f) ==
    /\ Len(f) \in {1, 2} /\ AllDigits(f)
    /\ Number(f) \in 1..12

\* %d: 3[01] | [12]\d | 0[1-9] | [1-9] | " "[1-9]
DayField(f) ==
    \/ /\ Len(f) \in {1, 2} /\ AllDigits(f)
       /\ Number(f) \in 1..31
    \/ /\ Len(f) = 2 /\ f[1] = " " /\ IsDigit(f[2])
       /\ Number(Tail(f)) \in 1..9

DayValue(f) == IF f[1] = " " THEN Number(Tail(f)) ELSE Number(f)

IsLeap(y) == y % 4 = 0 /\ (y % 100 # 0 \/ y % 400 = 0)

DaysInMonth(y, m) ==
    IF m = 2 THEN (IF IsLeap(y) THEN 29 ELSE 28)
    ELSE IF m \in {4, 6, 9, 11} THEN 30 ELSE 31

\* the parse of one string: [ok |-> FALSE] stands for ValueError
strptime(v) ==
    LET n     == Len(v)
        seps  == {k \in 6..n : v[k] = "-"}
        k     == IF seps = {} THEN 0
                 ELSE CHOOSE i \in seps : \A j \in seps : i <= j
        token == /\ n >= 8 /\ v[5] = "-" /\ k \in 7..(n - 1)
                 /\ YearField(SubSeq(v, 1, 4))
                 /\ MonthField(SubSeq(v, 6, k - 1))
                 /\ DayField(SubSeq(v, k + 1, n))
    IN  IF ~token THEN [ok |-> FALSE, date |-> <<0, 0, 0>>]
        ELSE LET y == Number(SubSeq(v, 1, 4))
                 m == Number(SubSeq(v, 6, k - 1))
                 d == DayValue(SubSeq(v, k + 1, n))
             IN  IF y >= 1 /\ d <= DaysInMonth(y, m)
                 THEN [ok |-> TRUE, date |-> <<y, m, d>>]
                 ELSE [ok |-> FALSE, date |-> <<0, 0, 0>>]

(***************************************************************************)
(* Patient table: queries of PatientCRUD.                                  *)
(***************************************************************************)
\* faulty variant: the row is inserted without the is_active default
\* a keyword argument of Patient(**kwargs): a column left out stays NULL
kwarg(d, f) == IF f \in DOMAIN d THEN d[f] ELSE NULL

\* NULL in a numeric column (age, weight, height), whose values are >= 0;
\* weight is counted in tenths of a kilogram, height in centimetres
NullNumber == -1

number_kwarg(d, f) == IF f \in DOMAIN d THEN d[f] ELSE NullNumber

PatientRow_inactive(d, t) ==
    [first_name |-> d.first_name, last_name |-> d.last_name,
     email |-> d.email, phone |-> d.phone,
     date_of_birth |-> kwarg(d, "date_of_birth"),
     age |-> number_kwarg(d, "age"), weight |-> number_kwarg(d, "weight"),
     height |-> number_kwarg(d, "height"),
     is_active |-> FALSE, created_at |-> t, updated_at |-> t]

\* Patient(**kwargs) with the column defaults is_active=True and
\* created_at, updated_at = datetime.utcnow
PatientRow(d, t) ==
    [first_name |-> d.first_name, last_name |-> d.last_name,
     email |-> d.email, phone |-> d.phone,
     date_of_birth |-> kwarg(d, "date_of_birth"),
     age |-> number_kwarg(d, "age"), weight |-> number_kwarg(d, "weight"),
     height |-> number_kwarg(d, "height"),
     is_active |-> TRUE, created_at |-> t, updated_at |-> t]

\* .first() of a query: one of the matching rows, None when there is none
First(ids) == IF ids = {} THEN {None} ELSE ids

\* faulty variant: the lookup sees inactive rows too
get_by_id_any(rows, patient_id) ==
    First({i \in DOMAIN rows : i = patient_id})

get_by_id(rows, patient_id) ==
    First({i \in DOMAIN rows : i = patient_id /\ rows[i].is_active = TRUE})

get_by_email(rows, email) ==
    First({i \in DOMAIN rows : rows[i].email # NULL /\ rows[i].email = email})

\* faulty variant: the internal lookup filters on is_active like get_by_id
patient_query_active(rows, patient_id) ==
    First({i \in DOMAIN rows : i = patient_id /\ rows[i].is_active = TRUE})

\* db.query(Patient).filter(Patient.id == patient_id).first() of update / delete
patient_query(rows, patient_id) ==
    First({i \in DOMAIN rows : i = patient_id})

\* faulty variant: no unique index on patients.email
email_unique_violation_off(rows, self, email) == FALSE

\* Column(String(255), unique=True): would row `self` holding `email` collide?
email_unique_violation(rows, self, email) ==
    /\ email # NULL
    /\ \E i \in DOMAIN rows : i # self /\ rows[i].email = email

\* faulty variant: the count forgets the is_active filter
count_all(rows) == Cardinality(DOMAIN rows)

\* PatientCRUD.count
count(rows) == Cardinality({i \in DOMAIN rows : rows[i].is_active = TRUE})

(***************************************************************************)
(* Initial state: create_all on an empty database, no request running.     *)
(***************************************************************************)
Init ==
    /\ patients = <<>>
    /\ nextPatientId = 1
    /\ consultations = <<>>
    /\ nextConsultationId = 1
    /\ symptoms = <<>>
    /\ nextSymptomId = 1
    /\ prescriptions = <<>>
    /\ nextPrescriptionId = 1
    /\ diagnostic_tests = <<>>
    /\ nextDiagnosticTestId = 1
    /\ now = 0
    /\ req = [r \in Reqs |-> IdleReq]

\* the tables of the children appended to a consultation after its creation
appended == <<prescriptions, nextPrescriptionId,
              diagnostic_tests, nextDiagnosticTestId>>

store == <<patients, nextPatientId, consultations, nextConsultationId,
           symptoms, nextSymptomId, appended>>

\* datetime.utcnow() moves on
Tick ==
    /\ now < MaxTime
    /\ now' = now + 1
    /\ UNCHANGED <<store, req>>

\* faulty variant: get_db without try / finally -- db.close() is skipped when
\* the handler raised
get_db_close_no_finally(r) ==
    /\ req[r].pc = "return"
    /\ req' = [req EXCEPT ![r].pc = "done",
                          ![r].session = IF req[r].res.status >= 400
                                         THEN "open" ELSE "closed",
                          ![r].arg = [none |-> TRUE],
                          ![r].loc = [none |-> TRUE]]
    /\ UNCHANGED <<store, now>>

\* get_db: finally db.close() -- the session's open transaction is rolled
\* back: what it flushed and did not commit (loc.tx, loc.pending) is discarded
get_db_close(r) ==
    /\ req[r].pc = "return"
    /\ req' = [req EXCEPT ![r].pc = "done", ![r].session = "closed",
                          ![r].arg = [none |-> TRUE],
                          ![r].loc = [none |-> TRUE]]
    /\ UNCHANGED <<store, now>>

(***************************************************************************)
(* POST /patients                                                          *)
(***************************************************************************)
\* PatientCreate.validate_dob: an absent date passes, a string must parse
validate_dob(data) ==
    "date_of_birth" \in DOMAIN data => strptime(data.date_of_birth).ok

\* PatientCreate validation, then the duplicate-email pre-check
create_patient(r, data) ==
    /\ Free(r)
    /\ LET a == [data |-> data]
           existing == IF data.email # NULL /\ data.email # <<>>
                       THEN get_by_email(patients, data.email) ELSE {None}
       IN  \E e \in existing :
             req' = [req EXCEPT ![r] =
               IF \/ data.first_name = <<>> \/ data.last_name = <<>>
                  \/ ~validate_dob(data)
               THEN Returned("create_patient", a, [none |-> TRUE],
                             [status |-> 422])
               ELSE IF e # None
               THEN Returned("create_patient", a, [none |-> TRUE],
                             [status |-> 400, existing |-> e])
               ELSE Started("create_patient", a, "cp_create", [none |-> TRUE])]
    /\ UNCHANGED <<store, now>>

\* faulty variant: the handler lets the IntegrityError escape (as update_patient does)
create_error_uncaught == [status |-> 500, existing |-> None]

\* except Exception as e: raise HTTPException(status_code=400, ...)
create_error == [status |-> 400, existing |-> None]

\* PatientCRUD.create called by another caller than the handler
PatientCRUD_create_call(r, kwargs) ==
    /\ Free(r)
    /\ req' = [req EXCEPT ![r] =
         Started("PatientCRUD.create", [data |-> kwargs], "cp_create",
                 [none |-> TRUE])]
    /\ UNCHANGED <<store, now>>

\* PatientCRUD.create, FIX 7: the string becomes a date; on ValueError the
\* keyword is popped
parse_date_of_birth(kwargs) ==
    IF "date_of_birth" \notin DOMAIN kwargs THEN kwargs
    ELSE LET parsed == strptime(kwargs.date_of_birth)
         IN  IF parsed.ok
             THEN [kwargs EXCEPT !.date_of_birth = parsed.date]
             ELSE [f \in DOMAIN kwargs \ {"date_of_birth"} |-> kwargs[f]]

\* PatientCRUD.create: INSERT and commit, under the unique index on email
PatientCRUD_create(r) ==
    /\ req[r].pc = "cp_create"
    /\ LET d       == parse_date_of_birth(req[r].arg.data)
           handler == req[r].op = "create_patient"
       IN  IF email_unique_violation(patients, None, d.email)
           THEN \* IntegrityError, caught by `except Exception`
                /\ req' = [req EXCEPT ![r] =
                     Returned(req[r].op, req[r].arg, [none |-> TRUE],
                              IF handler THEN create_error
                              ELSE [status |-> 0, raised |-> TRUE,
                                    id |-> None])]
                /\ UNCHANGED <<patients, nextPatientId>>
           ELSE /\ patients' = patients @@ (nextPatientId :> PatientRow(d, now))
                /\ nextPatientId' = nextPatientId + 1
                /\ req' = [req EXCEPT ![r] =
                     Returned(req[r].op, req[r].arg, [none |-> TRUE],
                              IF handler
                              THEN [status |-> 201, id |-> nextPatientId]
                              ELSE [status |-> 0, raised |-> FALSE,
                                    id |-> nextPatientId])]
    /\ UNCHANGED <<consultations, nextConsultationId, symptoms, nextSymptomId,
                   appended, now>>

(***************************************************************************)
(* The backing store is unreachable while a request runs: the statement    *)
(* the session sends raises OperationalError.                              *)
(***************************************************************************)
\* GET /health/db: SELECT 1, or 503 when it raises
db_health(r, reachable) ==
    /\ Free(r)
    /\ req' = [req EXCEPT ![r] =
         IF reachable
         THEN Returned("db_health", [none |-> TRUE], [none |-> TRUE],
                       [status |-> 200])
         ELSE Returned("db_health", [none |-> TRUE],
                       [raised |-> "OperationalError"], [status |-> 503])]
    /\ UNCHANGED <<store, now>>

\* POST /patients, the SELECT of the duplicate-email pre-check raises: it
\* stands outside the handler's try block, the exception escapes
create_patient_unreachable(r, data) ==
    /\ Free(r)
    /\ data.first_name # <<>> /\ data.last_name # <<>>
    /\ data.email # NULL /\ data.email # <<>>
    /\ req' = [req EXCEPT ![r] =
         Returned("create_patient", [data |-> data],
                  [raised |-> "OperationalError"], [status |-> 500])]
    /\ UNCHANGED <<store, now>>

\* POST /patients, the INSERT or the commit of PatientCRUD.create raises:
\* caught by the handler's `except Exception`
PatientCRUD_create_unreachable(r) ==
    /\ req[r].pc = "cp_create" /\ req[r].op = "create_patient"
    /\ req' = [req EXCEPT ![r] =
         Returned("create_patient", req[r].arg,
                  [raised |-> "OperationalError"], create_error)]
    /\ UNCHANGED <<store, now>>

(***************************************************************************)
(* GET /patients/{patient_id}                                              *)
(***************************************************************************)
get_patient(r, patient_id) ==
    /\ Free(r)
    /\ \E p \in get_by_id(patients, patient_id) :
         req' = [req EXCEPT ![r] =
           IF p = None
           THEN Returned("get_patient", [id |-> patient_id], [none |-> TRUE],
                         [status |-> 404])
           ELSE Returned("get_patient", [id |-> patient_id], [none |-> TRUE],
                         [status |-> 200, id |-> p])]
    /\ UNCHANGED <<store, now>>

(***************************************************************************)
(* The unit of work of an UPDATE: the attributes a session has changed on  *)
(* a loaded row, written by commit as UPDATE ... SET <changed columns>     *)
(* WHERE id = ?.  An attribute set to the value it was loaded with is not  *)
(* a change.                                                               *)
(***************************************************************************)
Changed(row, values) ==
    [k \in {f \in DOMAIN values : values[f] # row[f]} |-> values[k]]

\* faulty variant: commit writes back the whole row as the session loaded it
flush_update_stale(rows, id, loaded, dirty) ==
    [rows EXCEPT ![id] =
       [f \in DOMAIN loaded |-> IF f \in DOMAIN dirty THEN dirty[f] ELSE loaded[f]]]

\* the UPDATE statement commit emits
flush_update(rows, id, loaded, dirty) ==
    [rows EXCEPT ![id] =
       [f \in DOMAIN @ |-> IF f \in DOMAIN dirty THEN dirty[f] ELSE @[f]]]

\* faulty variant: the loop skips every falsy value (`if value:`)
set_values_truthy(kwargs) ==
    [k \in {f \in DOMAIN kwargs : kwargs[f] \notin {NULL, <<>>}} |-> kwargs[k]]

\* model_dump(exclude_none=True), then the loop's `value is not None`: the
\* attributes PatientCRUD.update sets
set_values(kwargs) ==
    [k \in {f \in DOMAIN kwargs : kwargs[f] # NULL} |-> kwargs[k]]

(***************************************************************************)
(* PUT /patients/{patient_id}                                              *)
(***************************************************************************)
\* PatientCRUD.update up to the commit; upd is the PatientUpdate body, a field
\* sent as null being NULL
update_patient(r, patient_id, upd) ==
    /\ Free(r)
    /\ LET a == [id |-> patient_id, upd |-> upd]
       IN  \E p \in patient_query(patients, patient_id) :
             req' = [req EXCEPT ![r] =
               IF p = None
               THEN Returned("update_patient", a, [none |-> TRUE],
                             [status |-> 404])
               ELSE Started("update_patient", a, "up_commit",
                      [loaded |-> patients[p],
                       utcnow |-> now,
                       dirty  |-> Changed(patients[p],
                                    set_values(upd) @@ ("updated_at" :> now))])]
    /\ UNCHANGED <<store, now>>

\* db.commit() of PatientCRUD.update, then refresh and to_dict
PatientCRUD_update_commit(r) ==
    /\ req[r].pc = "up_commit"
    /\ LET id == req[r].arg.id
           d  == req[r].loc.dirty
       IN  IF "email" \in DOMAIN d /\ email_unique_violation(patients, id, d.email)
           THEN \* IntegrityError is not caught by the handler
                /\ req' = [req EXCEPT ![r] =
                     Returned("update_patient", req[r].arg, [none |-> TRUE],
                              [status |-> 500])]
                /\ UNCHANGED patients
           ELSE /\ patients' = flush_update(patients, id, req[r].loc.loaded, d)
                /\ req' = [req EXCEPT ![r] =
                     Returned("update_patient", req[r].arg, [none |-> TRUE],
                              [status |-> 200, id |-> id])]
    /\ UNCHANGED <<nextPatientId, consultations, nextConsultationId,
                   symptoms, nextSymptomId, appended, now>>

(***************************************************************************)
(* DELETE /patients/{patient_id}                                           *)
(***************************************************************************)
\* faulty variant: a hard delete
delete_flush_hard(rows, id, loaded, dirty) ==
    [i \in DOMAIN rows \ {id} |-> rows[i]]

\* what commit writes for PatientCRUD.delete: the soft-delete UPDATE
delete_flush(rows, id, loaded, dirty) == flush_update(rows, id, loaded, dirty)

\* faulty variant: deactivating an inactive patient reports failure
delete_result_strict(was_active) == was_active

\* PatientCRUD.delete returns True for every row it found
delete_result(was_active) == TRUE

\* PatientCRUD.delete up to the assignments
delete_patient(r, patient_id) ==
    /\ Free(r)
    /\ LET a == [id |-> patient_id]
       IN  \E p \in patient_query(patients, patient_id) :
             req' = [req EXCEPT ![r] =
               IF p = None
               THEN Returned("delete_patient", a, [none |-> TRUE],
                             [status |-> 404])
               ELSE Started("delete_patient", a, "del_commit",
                      [loaded |-> patients[p],
                       dirty  |-> Changed(patients[p],
                                    [is_active |-> FALSE, updated_at |-> now])])]
    /\ UNCHANGED <<store, now>>

\* db.commit() of PatientCRUD.delete and the handler's answer
PatientCRUD_delete_commit(r) ==
    /\ req[r].pc = "del_commit"
    /\ LET id == req[r].arg.id
       IN  /\ patients' = delete_flush(patients, id, req[r].loc.loaded,
                                       req[r].loc.dirty)
           /\ req' = [req EXCEPT ![r] =
                Returned("delete_patient", req[r].arg,
                         [was_active |-> req[r].loc.loaded.is_active],
                         IF delete_result(req[r].loc.loaded.is_active)
                         THEN [status |-> 200] ELSE [status |-> 404])]
    /\ UNCHANGED <<nextPatientId, consultations, nextConsultationId,
                   symptoms, nextSymptomId, appended, now>>

(***************************************************************************)
(* POST /diagnose and ConsultationCRUD.create                              *)
(*                                                                         *)
(* The session runs with autocommit=False: flush sends the INSERT of the   *)
(* consultation inside the session's open transaction (loc.tx), db.add     *)
(* only queues a Symptom in the session (loc.pending), and commit writes   *)
(* the queued rows and makes the whole transaction visible.                *)
(***************************************************************************)
ConsultationRow(request, t) ==
    [patient_id |-> request.patient_db_id, consultation_date |-> t,
     severity |-> request.severity, created_at |-> t]

\* faulty variant: the symptom is built without the severity keyword
SymptomRow_no_severity(consultation_id, symptom_name, severity, t) ==
    [consultation_id |-> consultation_id, symptom_name |-> symptom_name,
     severity |-> NULL, created_at |-> t]

\* Symptom(consultation_id=..., symptom_name=..., severity=kwargs.get("severity"))
SymptomRow(consultation_id, symptom_name, severity, t) ==
    [consultation_id |-> consultation_id, symptom_name |-> symptom_name,
     severity |-> severity, created_at |-> t]

\* faulty variant: each statement commits on its own (autocommit)
flush_visible_autocommit(rows, id, row) == rows @@ (id :> row)

\* sessionmaker(autocommit=False): what other sessions see of a flushed row
flush_visible(rows, id, row) == rows

\* the default DATABASE_URL is SQLite, and nothing issues PRAGMA
\* foreign_keys=ON on its connections: ForeignKey(...) is declared in the
\* schema and not enforced on INSERT
foreign_keys_on == FALSE

\* would the INSERT of a child row naming parent `id` raise IntegrityError?
foreign_key_violation(parents, id) ==
    foreign_keys_on /\ id \notin DOMAIN parents

\* faulty variant: the diagnosis handler lets the exception of the save escape
create_answer_raise(op, request, id) ==
    IF op = "diagnose_symptoms"
    THEN [status |-> IF id = None THEN 500 ELSE 200, diagnosis |-> id # None,
          saved_to_db |-> id # None,
          consultation_id |-> id, patient_id |-> request.patient_db_id]
    ELSE [status |-> 0, raised |-> id = None, consultation_id |-> id]

\* what the caller of ConsultationCRUD.create gets: the JSON of the diagnosis
\* handler, which swallows the exception and returns the diagnosis text, or,
\* for a direct caller, the consultation or the exception (id = None)
create_answer(op, request, id) ==
    IF op = "diagnose_symptoms"
    THEN [status |-> 200, diagnosis |-> TRUE, saved_to_db |-> id # None,
          consultation_id |-> id, patient_id |-> request.patient_db_id]
    ELSE [status |-> 0, raised |-> id = None, consultation_id |-> id]

\* faulty variant: one row per distinct name, a repeated name is dropped
SymptomInserts_distinct(pending, first_id) ==
    LET idx == {k \in DOMAIN pending :
                  \A j \in 1..(k - 1) :
                    pending[j].symptom_name # pending[k].symptom_name}
        rank(k) == Cardinality({j \in idx : j < k})
    IN  [i \in first_id..(first_id + Cardinality(idx) - 1) |->
           pending[CHOOSE k \in idx : rank(k) = i - first_id]]

\* the rows commit inserts for the queued symptoms, ids in db.add order
SymptomInserts(pending, first_id) ==
    [i \in first_id..(first_id + Len(pending) - 1) |-> pending[i - first_id + 1]]

\* DiagnosisRequest.symptoms: List[str] = Field(..., min_length=1)
request_valid(request) == Len(request.symptoms) >= 1

\* the validation of the body and of the model name, the patient lookup
diagnose_symptoms(r, request) ==
    /\ Free(r)
    /\ LET a == [request |-> request]
           found == IF request.patient_db_id # None
                    THEN get_by_id(patients, request.patient_db_id)
                    ELSE {None}
       IN  \E p \in found :
             req' = [req EXCEPT ![r] =
               IF ~request_valid(request)
               THEN Returned("diagnose_symptoms", a, [none |-> TRUE],
                             [status |-> 422])
               ELSE IF ~request.model_ok
               THEN Returned("diagnose_symptoms", a, [none |-> TRUE],
                             [status |-> 400])
               ELSE IF request.patient_db_id # None /\ p = None
               THEN Returned("diagnose_symptoms", a, [none |-> TRUE],
                             [status |-> 404])
               ELSE Started("diagnose_symptoms", a, "dg_ai", [none |-> TRUE])]
    /\ UNCHANGED <<store, now>>

\* get_medical_diagnosis answers or raises
diagnose_ai(r, ok) ==
    /\ req[r].pc = "dg_ai"
    /\ req' = [req EXCEPT ![r] =
         IF ~ok
         THEN Returned("diagnose_symptoms", req[r].arg, [none |-> TRUE],
                       [status |-> 500])
         ELSE IF req[r].arg.request.patient_db_id = None
         THEN Returned("diagnose_symptoms", req[r].arg, [none |-> TRUE],
                       [status |-> 200, diagnosis |-> TRUE,
                        saved_to_db |-> FALSE,
                        consultation_id |-> None, patient_id |-> None])
         ELSE [req[r] EXCEPT !.pc = "c_flush"]]
    /\ UNCHANGED <<store, now>>

\* a direct call of ConsultationCRUD.create(db, patient_id, symptoms, **kwargs)
create_consultation(r, request) ==
    /\ Free(r)
    /\ req' = [req EXCEPT ![r] =
         Started("create_consultation", [request |-> request], "c_flush",
                 [none |-> TRUE])]
    /\ UNCHANGED <<store, now>>

\* ConsultationCRUD.create: db.add(consultation); db.flush()
ConsultationCRUD_create_flush(r) ==
    /\ req[r].pc = "c_flush"
    /\ LET row == ConsultationRow(req[r].arg.request, now)
       IN  IF foreign_key_violation(patients, row.patient_id)
           THEN /\ req' = [req EXCEPT ![r] =
                     Returned(req[r].op, req[r].arg,
                              [tx |-> [id |-> None, row |-> row],
                               pending |-> <<>>],
                              create_answer(req[r].op, req[r].arg.request, None))]
                /\ UNCHANGED <<consultations, nextConsultationId>>
           ELSE /\ consultations' =
                     flush_visible(consultations, nextConsultationId, row)
                /\ req' = [req EXCEPT ![r].pc = "c_add",
                                      ![r].loc = [tx |-> [id |-> nextConsultationId,
                                                          row |-> row],
                                                  pending |-> <<>>]]
                /\ nextConsultationId' = nextConsultationId + 1
    /\ UNCHANGED <<patients, nextPatientId, symptoms, nextSymptomId,
                   appended, now>>

\* ConsultationCRUD.create: one turn of the loop over symptoms
ConsultationCRUD_create_add(r) ==
    /\ req[r].pc = "c_add"
    /\ Len(req[r].loc.pending) < Len(req[r].arg.request.symptoms)
    /\ LET name == req[r].arg.request.symptoms[Len(req[r].loc.pending) + 1]
       IN  req' = [req EXCEPT ![r].loc.pending =
                     Append(@, SymptomRow(req[r].loc.tx.id, name,
                                          req[r].arg.request.severity, now))]
    /\ UNCHANGED <<store, now>>

\* ConsultationCRUD.create: db.commit(), and the handler's answer
ConsultationCRUD_create_commit(r) ==
    /\ req[r].pc = "c_add"
    /\ Len(req[r].loc.pending) = Len(req[r].arg.request.symptoms)
    /\ consultations' = consultations @@ (req[r].loc.tx.id :> req[r].loc.tx.row)
    /\ symptoms' = symptoms @@ SymptomInserts(req[r].loc.pending, nextSymptomId)
    /\ nextSymptomId' = nextSymptomId + Len(req[r].loc.pending)
    /\ req' = [req EXCEPT ![r] =
         Returned(req[r].op, req[r].arg, req[r].loc,
                  create_answer(req[r].op, req[r].arg.request, req[r].loc.tx.id))]
    /\ UNCHANGED <<patients, nextPatientId, nextConsultationId, appended, now>>

\* ConsultationCRUD.create raises after the flush (a failing statement, a lost
\* connection, a cancelled request): the handler catches it, prints, and
\* answers without a consultation id; the transaction stays open in the
\* session until get_db closes it
ConsultationCRUD_create_fail(r) ==
    /\ req[r].pc = "c_add"
    /\ req' = [req EXCEPT ![r] =
         Returned(req[r].op, req[r].arg, req[r].loc,
                  create_answer(req[r].op, req[r].arg.request, None))]
    /\ UNCHANGED <<store, now>>

(***************************************************************************)
(* ConsultationCRUD.add_prescription / add_diagnostic_test: one INSERT and *)
(* its commit.  No handler of backend.py calls them; their callers use the *)
(* data layer directly.                                                    *)
(***************************************************************************)
ChildRow(consultation_id, t) ==
    [consultation_id |-> consultation_id, created_at |-> t]

add_prescription(r, consultation_id) ==
    /\ Free(r)
    /\ LET a == [consultation_id |-> consultation_id]
       IN  IF foreign_key_violation(consultations, consultation_id)
           THEN /\ req' = [req EXCEPT ![r] =
                     Returned("add_prescription", a, [none |-> TRUE],
                              [status |-> 0, raised |-> TRUE, id |-> None])]
                /\ UNCHANGED <<prescriptions, nextPrescriptionId>>
           ELSE /\ prescriptions' = prescriptions @@
                     (nextPrescriptionId :> ChildRow(consultation_id, now))
                /\ nextPrescriptionId' = nextPrescriptionId + 1
                /\ req' = [req EXCEPT ![r] =
                     Returned("add_prescription", a, [none |-> TRUE],
                              [status |-> 0, raised |-> FALSE,
                               id |-> nextPrescriptionId])]
    /\ UNCHANGED <<patients, nextPatientId, consultations, nextConsultationId,
                   symptoms, nextSymptomId, diagnostic_tests,
                   nextDiagnosticTestId, now>>

add_diagnostic_test(r, consultation_id) ==
    /\ Free(r)
    /\ LET a == [consultation_id |-> consultation_id]
       IN  IF foreign_key_violation(consultations, consultation_id)
           THEN /\ req' = [req EXCEPT ![r] =
                     Returned("add_diagnostic_test", a, [none |-> TRUE],
                              [status |-> 0, raised |-> TRUE, id |-> None])]
                /\ UNCHANGED <<diagnostic_tests, nextDiagnosticTestId>>
           ELSE /\ diagnostic_tests' = diagnostic_tests @@
                     (nextDiagnosticTestId :> ChildRow(consultation_id, now))
                /\ nextDiagnosticTestId' = nextDiagnosticTestId + 1
                /\ req' = [req EXCEPT ![r] =
                     Returned("add_diagnostic_test", a, [none |-> TRUE],
                              [status |-> 0, raised |-> FALSE,
                               id |-> nextDiagnosticTestId])]
    /\ UNCHANGED <<patients, nextPatientId, consultations, nextConsultationId,
                   symptoms, nextSymptomId, prescriptions, nextPrescriptionId,
                   now>>

(***************************************************************************)
(* Listings.  ORDER BY names one column: rows that tie on it come in an    *)
(* order the database is free to choose, anew for every statement, so a    *)
(* query yields one of a set of pages.  A listing handler only reads; it   *)
(* is one step, run by one caller at a time in the specifications that     *)
(* use it.                                                                 *)
(***************************************************************************)
Perms(S) ==
    {s \in [1..Cardinality(S) -> S] : \A i, j \in DOMAIN s : i # j => s[i] # s[j]}

\* faulty variant: ORDER BY ... ASC
order_by_asc(rows, ids, key) ==
    {s \in Perms(ids) :
       \A i \in 1..(Len(s) - 1) : rows[s[i]][key] <= rows[s[i + 1]][key]}

\* .order_by(<key>.desc()) over the rows ids
order_by_desc(rows, ids, key) ==
    {s \in Perms(ids) :
       \A i \in 1..(Len(s) - 1) : rows[s[i]][key] >= rows[s[i + 1]][key]}

\* .offset(skip).limit(limit)
Page(s, skip, limit) == SubSeq(s, skip + 1, Min(skip + limit, Len(s)))

\* faulty variant: the listing forgets the is_active filter
get_all_unfiltered(rows, skip, limit) ==
    {Page(s, skip, limit) : s \in order_by_desc(rows, DOMAIN rows, "created_at")}

\* PatientCRUD.get_all
get_all(rows, skip, limit) ==
    {Page(s, skip, limit) :
       s \in order_by_desc(rows, {i \in DOMAIN rows : rows[i].is_active = TRUE},
                           "created_at")}

\* ConsultationCRUD.get_by_patient
get_by_patient(rows, patient_id, skip, limit) ==
    {Page(s, skip, limit) :
       s \in order_by_desc(rows, {i \in DOMAIN rows : rows[i].patient_id = patient_id},
                           "consultation_date")}

\* faulty variant: the listing keeps the consultations of active patients only
get_recent_active(rows, limit) ==
    {Page(s, 0, limit) :
       s \in order_by_desc(rows,
              {i \in DOMAIN rows : rows[i].patient_id \in DOMAIN patients
                                   /\ patients[rows[i].patient_id].is_active},
              "consultation_date")}

\* ConsultationCRUD.get_recent
get_recent(rows, limit) ==
    {Page(s, 0, limit) : s \in order_by_desc(rows, DOMAIN rows, "consultation_date")}

\* ConsultationCRUD.count_by_patient
count_by_patient(rows, patient_id) ==
    Cardinality({i \in DOMAIN rows : rows[i].patient_id = patient_id})

\* ConsultationCRUD.count
count_consultations(rows) == Cardinality(DOMAIN rows)

\* GET /stats: get_db_stats
get_stats(r) ==
    /\ Free(r)
    /\ req' = [req EXCEPT ![r] =
         Returned("get_stats", [none |-> TRUE], [none |-> TRUE],
                  [status |-> 200,
                   total_patients |-> count(patients),
                   total_consultations |-> count_consultations(consultations),
                   total_symptoms |-> Cardinality(DOMAIN symptoms),
                   total_prescriptions |-> Cardinality(DOMAIN prescriptions)])]
    /\ UNCHANGED <<store, now>>

\* GET /patients
list_patients(r, skip, limit) ==
    /\ Free(r)
    /\ LET a == [skip |-> skip, limit |-> limit]
       IN  IF skip < 0 \/ limit < 1 \/ limit > MaxListLimit
           THEN req' = [req EXCEPT ![r] =
                  Returned("list_patients", a, [none |-> TRUE], [status |-> 422])]
           ELSE \E page \in get_all(patients, skip, limit) :
                  req' = [req EXCEPT ![r] =
                    Returned("list_patients", a, [none |-> TRUE],
                             [status |-> 200, total |-> count(patients),
                              skip |-> skip, limit |-> limit, patients |-> page])]
    /\ UNCHANGED <<store, now>>

\* GET /patients/{patient_id}/consultations
get_patient_consultations(r, patient_id, skip, limit) ==
    /\ Free(r)
    /\ LET a == [id |-> patient_id, skip |-> skip, limit |-> limit]
       IN  IF skip < 0 \/ limit < 1 \/ limit > MaxConsultationLimit
           THEN req' = [req EXCEPT ![r] =
                  Returned("get_patient_consultations", a, [none |-> TRUE],
                           [status |-> 422])]
           ELSE \E p \in get_by_id(patients, patient_id) :
                \E page \in get_by_patient(consultations, patient_id, skip, limit) :
                  req' = [req EXCEPT ![r] =
                    IF p = None
                    THEN Returned("get_patient_consultations", a, [none |-> TRUE],
                                  [status |-> 404])
                    ELSE Returned("get_patient_consultations", a, [none |-> TRUE],
                           [status |-> 200, patient_id |-> patient_id,
                            total_consultations |->
                              count_by_patient(consultations, patient_id),
                            consultations |-> page])]
    /\ UNCHANGED <<store, now>>

\* GET /consultations/recent
recent_consultations(r, limit) ==
    /\ Free(r)
    /\ LET a == [limit |-> limit]
       IN  IF limit < 1 \/ limit > MaxRecentLimit
           THEN req' = [req EXCEPT ![r] =
                  Returned("recent_consultations", a, [none |-> TRUE],
                           [status |-> 422])]
           ELSE \E records \in get_recent(consultations, limit) :
                  req' = [req EXCEPT ![r] =
                    Returned("recent_consultations", a, [none |-> TRUE],
                             [status |-> 200, total |-> Len(records),
                              consultations |-> records])]
    /\ UNCHANGED <<store, now>>

(***************************************************************************)
(* GET /patients/search: PatientCRUD.search builds the LIKE pattern        *)
(* %<query>% from the query as it is typed.  In a LIKE pattern % matches   *)
(* any run of characters and _ any one character, also when they come from *)
(* the query; ILIKE compares without regard to case.                       *)
(***************************************************************************)
RECURSIVE like(_, _)
like(str, pattern) ==
    IF pattern = <<>> THEN str = <<>>
    ELSE IF Head(pattern) = "%"
         THEN \/ like(str, Tail(pattern))
              \/ str # <<>> /\ like(Tail(str), pattern)
    ELSE /\ str # <<>>
         /\ Head(pattern) = "_" \/ Lower(Head(str)) = Lower(Head(pattern))
         /\ like(Tail(str), Tail(pattern))

\* column.ilike(pattern): NULL matches nothing
ilike(column, pattern) == column # NULL /\ like(column, pattern)

\* PatientCRUD.search: the rows of .all(), in no particular order
search(rows, query) ==
    LET q == <<"%">> \o query \o <<"%">>
    IN  {i \in DOMAIN rows :
           /\ rows[i].is_active = TRUE
           /\ \/ ilike(rows[i].first_name, q)
              \/ ilike(rows[i].last_name, q)
              \/ ilike(rows[i].email, q)
              \/ ilike(rows[i].phone, q)}

\* faulty variant: the query parameter carries no length constraint
query_valid_any(q) == TRUE

\* q: str = Query(..., min_length=1)
query_valid(q) == Len(q) >= 1

\* GET /patients/search
search_patients(r, q) ==
    /\ Free(r)
    /\ req' = [req EXCEPT ![r] =
         IF ~query_valid(q)
         THEN Returned("search_patients", [q |-> q], [none |-> TRUE],
                       [status |-> 422])
         ELSE Returned("search_patients", [q |-> q], [none |-> TRUE],
                       [status |-> 200,
                        count |-> Cardinality(search(patients, q)),
                        results |-> search(patients, q)])]
    /\ UNCHANGED <<store, now>>

(***************************************************************************)
(* Concurrent patient registration, update, deactivation and lookup.       *)
(***************************************************************************)
Emails == {<<"a">>}
Names == {<<"J", "o">>}

RegInputs ==
    [first_name : Names, last_name : Names, email : Emails \cup {NULL, <<>>},
     phone : {NULL}]

UpdInputs == {("email" :> e) : e \in Emails} \cup {<<>>}

PatientIds == 1..MaxPatients

Next ==
    \/ \E r \in Reqs, d \in RegInputs :
         nextPatientId <= MaxPatients /\ create_patient(r, d)
    \/ \E r \in Reqs : PatientCRUD_create(r)
    \/ \E r \in Reqs, i \in PatientIds : get_patient(r, i)
    \/ \E r \in Reqs, i \in PatientIds, u \in UpdInputs : update_patient(r, i, u)
    \/ \E r \in Reqs : PatientCRUD_update_commit(r)
    \/ \E r \in Reqs, i \in PatientIds : delete_patient(r, i)
    \/ \E r \in Reqs : PatientCRUD_delete_commit(r)
    \/ \E r \in Reqs : get_db_close(r)

Spec == Init /\ [][Next]_vars


(***************************************************************************)
(* Claims on the concurrent specification Spec.                            *)
(***************************************************************************)
\* the step of slot r that produces the response of handler o
Responds(r, o) ==
    /\ req[r].pc # "return"
    /\ req'[r].pc = "return"
    /\ req'[r].op = o

\* the step of slot r that starts handler o
Begins(r, o) ==
    /\ Free(r)
    /\ req'[r].pc \notin {"idle", "done"}
    /\ req'[r].op = o

\* no two patient rows, active or not, hold the same non-null email
EmailsUnique ==
    \A i, j \in DOMAIN patients :
      (i # j /\ patients[i].email # NULL) => patients[i].email # patients[j].email

\* C1: under any interleaving of registrations and updates no two patient
\* rows, active or not, hold the same non-null email, and a registration
\* succeeds only while no row holds its email, so that of two concurrent
\* registrations of one email at most one inserts it.
C1_EmailUnique ==
    /\ []EmailsUnique
    /\ [][\A r \in Reqs :
            (/\ Responds(r, "create_patient")
             /\ req'[r].res.status = 201
             /\ req'[r].arg.data.email # NULL)
            => /\ \A i \in DOMAIN patients :
                    patients[i].email # req'[r].arg.data.email
               /\ patients'[req'[r].res.id].email = req'[r].arg.data.email
       ]_vars

\* two registrations of one email raced past the pre-check: one inserted, the
\* other was stopped by the unique index
C1_Witness ==
    \E r1, r2 \in Reqs :
      /\ r1 # r2
      /\ req[r1].op = "create_patient" /\ req[r1].pc = "return"
      /\ req[r2].op = "create_patient" /\ req[r2].pc = "return"
      /\ req[r1].arg.data.email \in Emails
      /\ req[r1].arg.data.email = req[r2].arg.data.email
      /\ req[r1].res.status = 201
      /\ req[r2].res = [status |-> 400, existing |-> None]

\* C3: deactivating an already inactive patient succeeds, the patient stays
\* inactive, and the row is still found by the direct (unfiltered) id lookup.
C3_DeactivateIdempotent ==
    [][\A r \in Reqs :
         /\ (/\ Begins(r, "delete_patient")
             /\ req'[r].arg.id \in DOMAIN patients
             /\ patients[req'[r].arg.id].is_active = FALSE)
            => req'[r].pc = "del_commit"
         /\ (/\ Responds(r, "delete_patient")
             /\ req[r].pc = "del_commit"
             /\ patients[req[r].arg.id].is_active = FALSE)
            => /\ req'[r].res.status = 200
               /\ req[r].arg.id \in DOMAIN patients'
               /\ patients'[req[r].arg.id].is_active = FALSE
               /\ patient_query(patients', req[r].arg.id) = {req[r].arg.id}
      ]_vars

\* a second deactivation has answered
C3_Witness ==
    \E r \in Reqs :
      /\ req[r].op = "delete_patient" /\ req[r].pc = "return"
      /\ req[r].res.status = 200
      /\ req[r].loc.was_active = FALSE
      /\ patients[req[r].arg.id].is_active = FALSE

\* C5: a registration whose email is already held by a patient row, active
\* or deactivated, when it answers is rejected with a client error and leaves
\* the patient rows unchanged.
C5_DuplicateEmailRejected ==
    [][\A r \in Reqs :
         (/\ Responds(r, "create_patient")
          /\ req'[r].arg.data.email # NULL
          /\ \E i \in DOMAIN patients :
               patients[i].email = req'[r].arg.data.email)
         => /\ req'[r].res.status \in 400..499
            /\ patients' = patients
      ]_vars

\* a registration was refused by the pre-check because a deactivated patient
\* holds the email
C5_Witness ==
    \E r \in Reqs :
      /\ req[r].op = "create_patient" /\ req[r].pc = "return"
      /\ req[r].res.status = 400
      /\ req[r].res.existing # None
      /\ patients[req[r].res.existing].is_active = FALSE
      /\ patients[req[r].res.existing].email = req[r].arg.data.email

\* C6: get_patient answers with the patient exactly when the row exists and
\* is active and with not-found otherwise, while update_patient and
\* deactivate_patient load the row of a deactivated patient.
C6_ActiveFilter ==
    [][\A r \in Reqs :
         /\ Responds(r, "get_patient")
            => LET i == req'[r].arg.id
               IN  IF i \in DOMAIN patients /\ patients[i].is_active
                   THEN req'[r].res = [status |-> 200, id |-> i]
                   ELSE req'[r].res.status = 404
         /\ (/\ Begins(r, "update_patient") \/ Begins(r, "delete_patient")
             /\ req'[r].arg.id \in DOMAIN patients)
            => /\ req'[r].pc \in {"up_commit", "del_commit"}
               /\ req'[r].loc.loaded = patients[req'[r].arg.id]
      ]_vars

\* a deactivated patient is not found by get_patient while an update has
\* loaded its row
C6_Witness ==
    \E r1, r2 \in Reqs :
      /\ req[r1].op = "get_patient" /\ req[r1].pc = "return"
      /\ req[r1].res.status = 404
      /\ req[r1].arg.id \in DOMAIN patients
      /\ req[r2].op = "update_patient" /\ req[r2].pc = "up_commit"
      /\ req[r2].arg.id = req[r1].arg.id
      /\ req[r2].loc.loaded.is_active = FALSE

\* C13: update_patient and deactivate_patient answer not-found exactly when
\* no patient row has the id; for the id of a row, active or not, they
\* succeed; and an answer of not-found leaves the store unchanged.
C13_NotFoundExactly ==
    [][\A r \in Reqs :
         (Responds(r, "update_patient") \/ Responds(r, "delete_patient")) =>
           LET id == req'[r].arg.id
           IN  /\ req'[r].res.status = 404 <=> id \notin DOMAIN patients
               /\ id \in DOMAIN patients => req'[r].res.status = 200
               /\ req'[r].res.status = 404 => store' = store
      ]_vars

\* what does hold: not-found exactly for an absent id, and the one answer
\* of an existing id that is no success is the uncaught unique violation
NotFoundOnlyWhenAbsent ==
    [][\A r \in Reqs :
         (Responds(r, "update_patient") \/ Responds(r, "delete_patient")) =>
           LET id == req'[r].arg.id
           IN  /\ req'[r].res.status = 404 <=> id \notin DOMAIN patients
               /\ id \in DOMAIN patients =>
                    \/ req'[r].res.status = 200
                    \/ /\ req'[r].op = "update_patient"
                       /\ req'[r].res.status = 500
                       /\ email_unique_violation(patients, id, req'[r].arg.upd.email)
                       /\ store' = store
               /\ req'[r].res.status = 404 => store' = store
      ]_vars


(***************************************************************************)
(* One caller at a time: registration, deactivation, diagnosis with its    *)
(* consultation write, and the three listings.                             *)
(***************************************************************************)
\* patient rows this specification may insert
MaxConsultPatients == 1
\* symptom names of one diagnosis request
MaxSymptoms == 2

Mild == <<"Mild">>
SymptomPool == <<"fever", "cough", "fever", "rash">>
SymptomLists == {SubSeq(SymptomPool, 1, n) : n \in 1..MaxSymptoms}

PlainInputs ==
    [first_name : Names, last_name : Names, email : {NULL}, phone : {NULL}]

DiagnosisInputs ==
    [model_ok : BOOLEAN, patient_db_id : {None} \cup 1..MaxConsultPatients,
     symptoms : SymptomLists, severity : {Mild}]

PhoneUpdates == {("phone" :> <<"1">>)}

Skips == {0, 1}
Limits == {0, 1, 2}

NextConsult ==
    \/ \E r \in OneReq, d \in PlainInputs :
         nextPatientId <= MaxConsultPatients /\ create_patient(r, d)
    \/ \E r \in OneReq : PatientCRUD_create(r)
    \/ \E r \in OneReq, i \in 1..MaxConsultPatients : get_patient(r, i)
    \/ \E r \in OneReq, i \in 1..MaxConsultPatients, u \in PhoneUpdates :
         update_patient(r, i, u)
    \/ \E r \in OneReq : PatientCRUD_update_commit(r)
    \/ \E r \in OneReq, i \in 1..MaxConsultPatients : delete_patient(r, i)
    \/ \E r \in OneReq : PatientCRUD_delete_commit(r)
    \/ \E r \in OneReq, q \in DiagnosisInputs :
         nextConsultationId <= MaxConsultations /\ diagnose_symptoms(r, q)
    \/ \E r \in OneReq, ok \in BOOLEAN : diagnose_ai(r, ok)
    \/ \E r \in OneReq : ConsultationCRUD_create_flush(r)
    \/ \E r \in OneReq : ConsultationCRUD_create_add(r)
    \/ \E r \in OneReq : ConsultationCRUD_create_commit(r)
    \/ \E r \in OneReq : ConsultationCRUD_create_fail(r)
    \/ \E r \in OneReq, k \in Skips, n \in Limits \cup {MaxListLimit + 1} :
         list_patients(r, k, n)
    \/ \E r \in OneReq, i \in 1..MaxConsultPatients, k \in Skips,
          n \in Limits \cup {MaxConsultationLimit + 1} :
         get_patient_consultations(r, i, k, n)
    \/ \E r \in OneReq, n \in Limits \cup {MaxRecentLimit + 1} :
         recent_consultations(r, n)
    \/ \E r \in OneReq : get_db_close(r)

SpecConsult == Init /\ [][NextConsult]_vars


(***************************************************************************)
(* Claims on the sequential specification SpecConsult.                     *)
(***************************************************************************)
\* the symptom rows of consultation id in table rows
SymptomsOf(rows, id) == {i \in DOMAIN rows : rows[i].consultation_id = id}

\* the step of slot r that releases the unit of work of a diagnosis that
\* reached ConsultationCRUD.create
ReleasesCreate(r) ==
    /\ req[r].op = "diagnose_symptoms"
    /\ req[r].pc = "return"
    /\ req'[r].pc = "done"
    /\ req[r].res.status = 200
    /\ req[r].res.patient_id # None

C4_NeverHardDeleted ==
    [][/\ \A i \in DOMAIN patients :
            /\ i \in DOMAIN patients'
            /\ patients'[i].created_at = patients[i].created_at
       /\ \A r \in Reqs :
            (req[r].pc = "del_commit" /\ req'[r].pc = "return")
            => /\ DOMAIN patients' = DOMAIN patients
               /\ \A i \in DOMAIN patients :
                    patients'[i] =
                      IF i = req[r].arg.id
                      THEN [patients[i] EXCEPT
                              !.is_active = FALSE,
                              !.updated_at = patients'[i].updated_at]
                      ELSE patients[i]
      ]_vars

\* a deactivated patient is still stored, with a consultation of its own
C4_Witness ==
    \E i \in DOMAIN patients :
      /\ patients[i].is_active = FALSE
      /\ \E c \in DOMAIN consultations : consultations[c].patient_id = i
      /\ \E r \in Reqs : req[r].op = "delete_patient" /\ req[r].pc = "done"
                         /\ req[r].res.status = 200

\* C9: every listing answers with a total that counts all matching rows of
\* the store, whatever the page: the active patients, the consultations of
\* the patient, all consultations.
C9_TotalIndependentOfPage ==
    \A r \in Reqs :
      (req[r].pc = "return" /\ req[r].res.status = 200) =>
        /\ req[r].op = "list_patients" =>
             req[r].res.total =
               Cardinality({i \in DOMAIN patients : patients[i].is_active})
        /\ req[r].op = "get_patient_consultations" =>
             req[r].res.total_consultations =
               Cardinality({c \in DOMAIN consultations :
                              consultations[c].patient_id = req[r].arg.id})
        /\ req[r].op = "recent_consultations" =>
             req[r].res.total = Cardinality(DOMAIN consultations)

\* C21: when the diagnosis text is there and the save of the consultation
\* then fails, the diagnosis request is still answered with the diagnosis,
\* marked as not saved (saved_to_db false, no consultation id), the step
\* writes nothing, and when the request is over the store holds neither the
\* consultation nor a symptom of it.
C21_NotSavedReported ==
    [][\A r \in Reqs :
         /\ (/\ req[r].op = "diagnose_symptoms"
             /\ req[r].pc = "c_add" /\ req'[r].pc = "return"
             /\ req[r].loc.tx.id \notin DOMAIN consultations')
            => /\ req'[r].res.status = 200
               /\ req'[r].res.diagnosis = TRUE
               /\ req'[r].res.saved_to_db = FALSE
               /\ req'[r].res.consultation_id = None
               /\ store' = store
         /\ (ReleasesCreate(r) /\ ~req[r].res.saved_to_db)
            => /\ store' = store
               /\ req[r].loc.tx.id \notin DOMAIN consultations'
               /\ SymptomsOf(symptoms', req[r].loc.tx.id) = {}
      ]_vars

\* a save failed with two symptoms queued in the session; the request is
\* answered with the diagnosis, not saved, and the store holds no row of it
C21_Witness ==
    \E r \in Reqs :
      /\ req[r].op = "diagnose_symptoms" /\ req[r].pc = "return"
      /\ req[r].res.status = 200
      /\ req[r].res.patient_id # None
      /\ req[r].res.saved_to_db = FALSE
      /\ req[r].res.consultation_id = None
      /\ Len(req[r].loc.pending) = 2
      /\ req[r].loc.tx.id \notin DOMAIN consultations
      /\ SymptomsOf(symptoms, req[r].loc.tx.id) = {}


(***************************************************************************)
(* One caller at a time: registration, deactivation and the patient        *)
(* listing, while the clock moves.                                         *)
(***************************************************************************)
ListSkips == {-1, 0, 1, 2}
ListLimits == {0, 1, 2, MaxListLimit, MaxListLimit + 1}

NextList ==
    \/ Tick
    \/ \E r \in OneReq, d \in PlainInputs :
         nextPatientId <= MaxListPatients /\ create_patient(r, d)
    \/ \E r \in OneReq : PatientCRUD_create(r)
    \/ \E r \in OneReq, i \in 1..MaxListPatients : delete_patient(r, i)
    \/ \E r \in OneReq : PatientCRUD_delete_commit(r)
    \/ \E r \in OneReq, k \in ListSkips, n \in ListLimits : list_patients(r, k, n)
    \/ \E r \in OneReq : get_db_close(r)

SpecList == Init /\ [][NextList]_vars

(***************************************************************************)
(* Claims on SpecList.                                                     *)
(***************************************************************************)
Active == {i \in DOMAIN patients : patients[i].is_active}

\* active patients created strictly after / not before patient x
Newer(x) == Cardinality({i \in Active : patients[i].created_at > patients[x].created_at})
NotOlder(x) == Cardinality({i \in Active : patients[i].created_at >= patients[x].created_at})

\* C7: list_patients(offset, limit) answers only for 1 <= limit <= 500 and
\* offset >= 0, and then with active patients only, newest first, the rows at
\* the places offset+1 .. offset+limit of the creation-descending order.
C7_ListPage ==
    \A r \in Reqs :
      (req[r].op = "list_patients" /\ req[r].pc = "return") =>
        IF req[r].arg.skip < 0 \/ req[r].arg.limit < 1
           \/ req[r].arg.limit > MaxListLimit
        THEN req[r].res.status = 422
        ELSE LET page == req[r].res.patients
                 k    == req[r].arg.skip
                 n    == req[r].arg.limit
                 left == IF Cardinality(Active) > k
                         THEN Cardinality(Active) - k ELSE 0
             IN  /\ req[r].res.status = 200
                 /\ Len(page) = Min(n, left)
                 /\ \A i \in DOMAIN page : page[i] \in Active
                 /\ \A i, j \in DOMAIN page : i # j => page[i] # page[j]
                 /\ \A i \in 1..(Len(page) - 1) :
                      patients[page[i]].created_at >= patients[page[i + 1]].created_at
                 /\ \A i \in DOMAIN page :
                      /\ Newer(page[i]) < k + i
                      /\ k + i <= NotOlder(page[i])

\* a page past the newest patient of a store that holds a deactivated
\* patient and patients of different creation times
C7_Witness ==
    \E r \in Reqs :
      /\ req[r].op = "list_patients" /\ req[r].pc = "return"
      /\ req[r].res.status = 200
      /\ req[r].arg.skip = 1
      /\ Len(req[r].res.patients) = 1
      /\ Active # DOMAIN patients
      /\ \E i \in Active :
           patients[i].created_at > patients[req[r].res.patients[1]].created_at

\* C8: on an unchanged store the pages (k, n) and (k + n, n) are disjoint,
\* together they are the rows k .. k+2n-1 of the creation-descending order of
\* the active patients, and each answer's total is the number of active
\* patients.
C8_ConsecutivePages ==
    [][\A r \in Reqs :
         (/\ req[r].op = "list_patients" /\ req[r].pc = "done"
          /\ req[r].res.status = 200
          /\ req'[r].op = "list_patients" /\ req'[r].pc = "return"
          /\ req'[r].res.status = 200
          /\ req'[r].res.limit = req[r].res.limit
          /\ req'[r].res.skip = req[r].res.skip + req[r].res.limit)
         => LET p1 == req[r].res.patients
                p2 == req'[r].res.patients
            IN  /\ {p1[i] : i \in DOMAIN p1} \cap {p2[i] : i \in DOMAIN p2} = {}
                /\ \E s \in order_by_desc(patients, Active, "created_at") :
                     p1 \o p2 = Page(s, req[r].res.skip, 2 * req[r].res.limit)
                /\ req[r].res.total = Cardinality(Active)
                /\ req'[r].res.total = Cardinality(Active)
      ]_vars

\* C20: a successful create_patient answers with an id that no patient was
\* given before, stores the row with is_active true and both timestamps set
\* to the current time, changes no other row, and the row is at once found
\* by get_patient's lookup, listed by list_patients and counted among the
\* active patients.
C20_CreateVisible ==
    [][\A r \in Reqs :
         (Responds(r, "create_patient") /\ req'[r].res.status = 201) =>
           LET id == req'[r].res.id
           IN  /\ DOMAIN patients = 1..(nextPatientId - 1)
               /\ id = nextPatientId
               /\ nextPatientId' = id + 1
               /\ DOMAIN patients' = DOMAIN patients \cup {id}
               /\ \A i \in DOMAIN patients : patients'[i] = patients[i]
               /\ patients'[id].is_active = TRUE
               /\ patients'[id].created_at = now
               /\ patients'[id].updated_at = now
               /\ get_by_id(patients', id) = {id}
               /\ count(patients') = count(patients) + 1
               /\ \A page \in get_all(patients', 0, MaxListLimit) :
                    \E k \in DOMAIN page : page[k] = id
      ]_vars

\* a registration after a tick of the clock and a deactivation has returned
\* the second id; the new row is active and carries the current time
C20_Witness ==
    \E r \in Reqs :
      /\ req[r].op = "create_patient" /\ req[r].pc = "return"
      /\ req[r].res.status = 201
      /\ req[r].res.id = 2
      /\ now > 0
      /\ patients[1].is_active = FALSE
      /\ patients[2].is_active = TRUE
      /\ patients[2].created_at = now
      /\ patients[2].updated_at = now


(***************************************************************************)
(* One caller at a time: registration, deactivation and search.            *)
(***************************************************************************)
SearchInputs ==
    [first_name : {<<"J", "o">>, <<"A", "l">>},
     last_name  : {<<"D", "o">>},
     email      : {NULL, <<"a", "j", "o", "@">>, <<"x", "_", "y">>},
     phone      : {NULL, <<"1", "2">>}]

Queries ==
    {<<>>, <<"j", "o">>, <<"J", "O">>, <<"o", "@">>, <<"2">>, <<"z">>,
     <<"_">>, <<"%">>, <<"j", "_">>}

NextSearch ==
    \/ \E r \in OneReq, d \in SearchInputs :
         nextPatientId <= MaxSearchPatients /\ create_patient(r, d)
    \/ \E r \in OneReq : PatientCRUD_create(r)
    \/ \E r \in OneReq, i \in 1..MaxSearchPatients : delete_patient(r, i)
    \/ \E r \in OneReq : PatientCRUD_delete_commit(r)
    \/ \E r \in OneReq, q \in Queries : search_patients(r, q)
    \/ \E r \in OneReq : get_db_close(r)

SpecSearch == Init /\ [][NextSearch]_vars

(***************************************************************************)
(* Claims on SpecSearch.                                                   *)
(***************************************************************************)
\* text occurs in str, letters compared without regard to case
Contains(str, text) ==
    /\ str # NULL
    /\ \E off \in 0..(Len(str) - Len(text)) :
         \A k \in 1..Len(text) : Lower(str[off + k]) = Lower(text[k])

\* C10: search_patients(text) answers with exactly the active patients whose
\* first name, last name, email or phone contains text, without regard to
\* case; a deactivated patient is never among them.
C10_SearchExact ==
    \A r \in Reqs :
      (req[r].op = "search_patients" /\ req[r].pc = "return"
       /\ req[r].res.status = 200) =>
        req[r].res.results =
          {i \in DOMAIN patients :
             /\ patients[i].is_active
             /\ \/ Contains(patients[i].first_name, req[r].arg.q)
                \/ Contains(patients[i].last_name, req[r].arg.q)
                \/ Contains(patients[i].email, req[r].arg.q)
                \/ Contains(patients[i].phone, req[r].arg.q)}

\* C11: search_patients with an empty query is rejected with a client error;
\* its answer carries no result set, so never the full set of active patients.
C11_EmptyQueryRejected ==
    \A r \in Reqs :
      (req[r].op = "search_patients" /\ req[r].pc = "return"
       /\ req[r].arg.q = <<>>) =>
        /\ req[r].res.status \in 400..499
        /\ "results" \notin DOMAIN req[r].res

\* the empty query was refused while the store holds an active patient
C11_Witness ==
    \E r \in Reqs :
      /\ req[r].op = "search_patients" /\ req[r].pc = "return"
      /\ req[r].arg.q = <<>>
      /\ req[r].res.status = 422
      /\ \E i \in DOMAIN patients : patients[i].is_active


(***************************************************************************)
(* One caller at a time: registration, partial update and deactivation,    *)
(* while the clock moves.                                                  *)
(***************************************************************************)
\* patient rows this specification may insert
MaxUpdatePatients == 1

\* PatientUpdate bodies: a field is absent, null, empty or a value
UpdateBodies ==
    LET emails == {("email" :> e) : e \in Emails} \cup {<<>>}
        phones == {("phone" :> p) : p \in {NULL, <<>>, <<"1">>}} \cup {<<>>}
    IN  {e @@ p : e \in emails, p \in phones}

NextUpdate ==
    \/ Tick
    \/ \E r \in OneReq, d \in PlainInputs :
         nextPatientId <= MaxUpdatePatients /\ create_patient(r, d)
    \/ \E r \in OneReq : PatientCRUD_create(r)
    \/ \E r \in OneReq, i \in 1..MaxUpdatePatients, u \in UpdateBodies :
         update_patient(r, i, u)
    \/ \E r \in OneReq : PatientCRUD_update_commit(r)
    \/ \E r \in OneReq, i \in 1..MaxUpdatePatients : delete_patient(r, i)
    \/ \E r \in OneReq : PatientCRUD_delete_commit(r)
    \/ \E r \in OneReq : get_db_close(r)

SpecUpdate == Init /\ [][NextUpdate]_vars

(***************************************************************************)
(* Claims on SpecUpdate.                                                   *)
(***************************************************************************)
\* C12: a successful update_patient sets every field present (not null) in
\* the partial update to the supplied value, an empty value included, leaves
\* every other field of the row as it was (is_active, created_at, the names
\* and the profile fields not named) apart from updated_at, which it
\* refreshes, and changes no other row and no id.
C12_UpdateFrame ==
    [][\A r \in Reqs :
         (Responds(r, "update_patient") /\ req'[r].res.status = 200) =>
           LET id      == req[r].arg.id
               upd     == req[r].arg.upd
               present == {f \in DOMAIN upd : upd[f] # NULL}
           IN  /\ req'[r].res.id = id
               /\ DOMAIN patients' = DOMAIN patients
               /\ \A i \in DOMAIN patients \ {id} : patients'[i] = patients[i]
               /\ \A f \in DOMAIN patients[id] :
                    patients'[id][f] =
                      IF f \in present THEN upd[f]
                      ELSE IF f = "updated_at" THEN req[r].loc.utcnow
                      ELSE patients[id][f]
               /\ patients[id].updated_at <= patients'[id].updated_at
               /\ patients'[id].updated_at <= now
      ]_vars

\* an update that named only the phone, with an empty value, has emptied the
\* phone of a deactivated patient and refreshed updated_at; the email set
\* earlier is still there
C12_Witness ==
    \E r \in Reqs :
      /\ req[r].op = "update_patient" /\ req[r].pc = "return"
      /\ req[r].res.status = 200
      /\ req[r].arg.upd = ("phone" :> <<>>)
      /\ patients[req[r].arg.id].phone = <<>>
      /\ patients[req[r].arg.id].email \in Emails
      /\ patients[req[r].arg.id].is_active = FALSE
      /\ patients[req[r].arg.id].updated_at > patients[req[r].arg.id].created_at


(***************************************************************************)
(* One caller at a time on the data layer and the diagnosis endpoint:      *)
(* registration, deactivation, consultation creation (direct and through   *)
(* POST /diagnose) and the appending of prescriptions and tests.           *)
(***************************************************************************)
\* patient rows this specification may insert
MaxStorePatients == 1
\* prescription rows and diagnostic-test rows this specification may insert
MaxPrescriptions == 1
MaxDiagnosticTests == 1

\* arguments of a direct ConsultationCRUD.create: any patient id, any list of
\* names, severity given or not
StoreInputs ==
    [patient_db_id : 1..(MaxStorePatients + 1),
     symptoms : {<<>>} \cup SymptomLists, severity : {NULL, Mild}]

\* POST /diagnose bodies that name a patient, the list of symptoms empty or not
SaveInputs ==
    [model_ok : {TRUE}, patient_db_id : 1..MaxStorePatients,
     symptoms : {<<>>} \cup SymptomLists, severity : {NULL, Mild}]

ConsultationIds == 1..(MaxConsultations + 1)

NextStore ==
    \/ \E r \in OneReq, d \in PlainInputs :
         nextPatientId <= MaxStorePatients /\ create_patient(r, d)
    \/ \E r \in OneReq : PatientCRUD_create(r)
    \/ \E r \in OneReq, i \in 1..MaxStorePatients : delete_patient(r, i)
    \/ \E r \in OneReq : PatientCRUD_delete_commit(r)
    \/ \E r \in OneReq, q \in StoreInputs :
         nextConsultationId <= MaxConsultations /\ create_consultation(r, q)
    \/ \E r \in OneReq, q \in SaveInputs :
         nextConsultationId <= MaxConsultations /\ diagnose_symptoms(r, q)
    \/ \E r \in OneReq, ok \in BOOLEAN : diagnose_ai(r, ok)
    \/ \E r \in OneReq : ConsultationCRUD_create_flush(r)
    \/ \E r \in OneReq : ConsultationCRUD_create_add(r)
    \/ \E r \in OneReq : ConsultationCRUD_create_commit(r)
    \/ \E r \in OneReq : ConsultationCRUD_create_fail(r)
    \/ \E r \in OneReq, c \in ConsultationIds :
         nextPrescriptionId <= MaxPrescriptions /\ add_prescription(r, c)
    \/ \E r \in OneReq, c \in ConsultationIds :
         nextDiagnosticTestId <= MaxDiagnosticTests /\ add_diagnostic_test(r, c)
    \/ \E r \in OneReq : get_db_close(r)

SpecStore == Init /\ [][NextStore]_vars

(***************************************************************************)
(* Claims on SpecStore.                                                    *)
(***************************************************************************)
\* C14: in every reachable state every consultation row references an
\* existing patient row, and every symptom, prescription and diagnostic-test
\* row references an existing consultation row.
C14_ReferentialIntegrity ==
    /\ \A c \in DOMAIN consultations :
         consultations[c].patient_id \in DOMAIN patients
    /\ \A s \in DOMAIN symptoms :
         symptoms[s].consultation_id \in DOMAIN consultations
    /\ \A p \in DOMAIN prescriptions :
         prescriptions[p].consultation_id \in DOMAIN consultations
    /\ \A d \in DOMAIN diagnostic_tests :
         diagnostic_tests[d].consultation_id \in DOMAIN consultations

\* C15: a child write that names a parent which does not exist fails with a
\* referential error and writes no row: the INSERT of ConsultationCRUD.create
\* for a patient_id of no patient row, add_prescription and
\* add_diagnostic_test for a consultation_id of no consultation row.
C15_ReferentialError ==
    [][\A r \in Reqs :
         /\ (/\ req[r].pc = "c_flush" /\ req'[r].pc # "c_flush"
             /\ req[r].arg.request.patient_db_id \notin DOMAIN patients)
            => /\ req'[r].pc = "return"
               /\ req'[r].res.consultation_id = None
               /\ store' = store
         /\ (/\ Responds(r, "add_prescription")
             /\ req'[r].arg.consultation_id \notin DOMAIN consultations)
            => req'[r].res.raised /\ store' = store
         /\ (/\ Responds(r, "add_diagnostic_test")
             /\ req'[r].arg.consultation_id \notin DOMAIN consultations)
            => req'[r].res.raised /\ store' = store
      ]_vars

\* the patient row a request names exists and is deactivated
Deactivated(request) ==
    /\ request.patient_db_id \in DOMAIN patients
    /\ ~patients[request.patient_db_id].is_active

\* ConsultationCRUD.create accepts a deactivated patient: its INSERT goes
\* through, and its commit persists the consultation for that patient
CreateForDeactivated(r) ==
    /\ (/\ req[r].pc = "c_flush" /\ req'[r].pc # "c_flush"
        /\ Deactivated(req[r].arg.request))
       => req'[r].pc = "c_add"
    /\ (/\ req[r].pc = "c_add" /\ req'[r].pc = "return"
        /\ req'[r].res.consultation_id # None
        /\ Deactivated(req[r].arg.request))
       => /\ req'[r].res.consultation_id \in DOMAIN consultations'
          /\ consultations'[req'[r].res.consultation_id].patient_id
               = req[r].arg.request.patient_db_id

\* C16: a consultation can be recorded against a deactivated patient: the
\* store's create accepts the patient and persists the consultation, and a
\* diagnosis request that names the patient is not refused but goes on to
\* the diagnosis whose result is saved.
C16_ConsultDeactivated ==
    [][\A r \in Reqs :
         /\ CreateForDeactivated(r)
         /\ (/\ Begins(r, "diagnose_symptoms")
             /\ req'[r].arg.request.model_ok
             /\ Deactivated(req'[r].arg.request))
            => req'[r].pc = "dg_ai"
      ]_vars

\* the part of it that holds: the direct create
StoreCreateForDeactivated ==
    [][\A r \in Reqs : CreateForDeactivated(r)]_vars


(***************************************************************************)
(* One caller at a time on ConsultationCRUD.create alone: lists of names   *)
(* that are empty or repeat a name, severity given or not.                 *)
(***************************************************************************)
RepeatPool == <<"fever", "fever", "cough", "rash">>

CreateInputs ==
    [patient_db_id : 1..MaxStorePatients,
     symptoms : {SubSeq(RepeatPool, 1, n) : n \in 0..MaxSymptoms},
     severity : {NULL, Mild}]

NextCreate ==
    \/ \E r \in OneReq, d \in PlainInputs :
         nextPatientId <= MaxStorePatients /\ create_patient(r, d)
    \/ \E r \in OneReq : PatientCRUD_create(r)
    \/ \E r \in OneReq, q \in CreateInputs :
         nextConsultationId <= MaxConsultations /\ create_consultation(r, q)
    \/ \E r \in OneReq : ConsultationCRUD_create_flush(r)
    \/ \E r \in OneReq : ConsultationCRUD_create_add(r)
    \/ \E r \in OneReq : ConsultationCRUD_create_commit(r)
    \/ \E r \in OneReq : ConsultationCRUD_create_fail(r)
    \/ \E r \in OneReq : get_db_close(r)

SpecCreate == Init /\ [][NextCreate]_vars

(***************************************************************************)
(* Claims on SpecCreate.                                                   *)
(***************************************************************************)
\* how often name n occurs in the list names
Occurrences(names, n) == Cardinality({k \in DOMAIN names : names[k] = n})

\* C17: after a successful create_consultation the consultation owns exactly
\* one symptom row per supplied name, a name supplied twice having two rows,
\* and no other row; with an empty list the create succeeds as well and the
\* consultation owns no symptom row.
C17_SymptomPerName ==
    [][\A r \in Reqs :
         /\ (req[r].pc = "c_add" /\ req'[r].pc = "return"
             /\ req'[r].res.consultation_id # None)
            => LET id    == req'[r].res.consultation_id
                   names == req[r].arg.request.symptoms
                   rows  == SymptomsOf(symptoms', id)
               IN  /\ id \in DOMAIN consultations'
                   /\ SymptomsOf(symptoms, id) = {}
                   /\ Cardinality(rows) = Len(names)
                   /\ \A i \in rows :
                        Cardinality({j \in rows : symptoms'[j].symptom_name
                                                   = symptoms'[i].symptom_name})
                          = Occurrences(names, symptoms'[i].symptom_name)
                   /\ \A k \in DOMAIN names :
                        \E i \in rows : symptoms'[i].symptom_name = names[k]
                   /\ \A i \in DOMAIN symptoms : symptoms'[i] = symptoms[i]
         /\ (req[r].pc = "c_flush" /\ req'[r].pc # "c_flush"
             /\ req[r].arg.request.symptoms = <<>>)
            => req'[r].pc = "c_add"
         /\ (req[r].pc = "c_add" /\ req[r].arg.request.symptoms = <<>>)
            => ENABLED ConsultationCRUD_create_commit(r)
      ]_vars

\* a create with a name supplied twice has returned its consultation with
\* two symptom rows, next to a consultation created with an empty list
C17_Witness ==
    \E r \in Reqs :
      /\ req[r].op = "create_consultation" /\ req[r].pc = "return"
      /\ req[r].res.consultation_id # None
      /\ req[r].arg.request.symptoms = <<"fever", "fever">>
      /\ Cardinality(SymptomsOf(symptoms, req[r].res.consultation_id)) = 2
      /\ \E c \in DOMAIN consultations :
           c # req[r].res.consultation_id /\ SymptomsOf(symptoms, c) = {}

\* C18: every symptom row created by create_consultation carries the
\* severity of its parent consultation, and none (NULL) when the
\* consultation was created without a severity.
C18_SeverityInherited ==
    \A s \in DOMAIN symptoms :
      /\ symptoms[s].consultation_id \in DOMAIN consultations
      /\ symptoms[s].severity =
           consultations[symptoms[s].consultation_id].severity

\* the store holds a symptom of a Mild consultation and a symptom of a
\* consultation without severity
C18_Witness ==
    /\ \E s \in DOMAIN symptoms :
         /\ symptoms[s].severity = Mild
         /\ consultations[symptoms[s].consultation_id].severity = Mild
    /\ \E s \in DOMAIN symptoms :
         /\ symptoms[s].severity = NULL
         /\ consultations[symptoms[s].consultation_id].severity = NULL


(***************************************************************************)
(* One caller at a time: registration, consultation creation and the two   *)
(* consultation listings, while the clock moves.  The patients register    *)
(* before the first consultation and the first tick of the clock.          *)
(***************************************************************************)
\* patient rows and consultation rows this specification may insert
MaxHistoryPatients == 2
MaxHistoryConsultations == 3

HistoryInputs ==
    [patient_db_id : 1..MaxHistoryPatients, symptoms : {<<>>}, severity : {NULL}]

HistorySkips == {0, 1}
HistoryLimits == {0, 1, 2}

NextHistory ==
    \/ Tick
    \/ \E r \in OneReq, d \in PlainInputs :
         /\ nextPatientId <= MaxHistoryPatients
         /\ now = 0 /\ nextConsultationId = 1
         /\ create_patient(r, d)
    \/ \E r \in OneReq : PatientCRUD_create(r)
    \/ \E r \in OneReq, q \in HistoryInputs :
         /\ nextConsultationId <= MaxHistoryConsultations
         /\ q.patient_db_id \in DOMAIN patients
         /\ create_consultation(r, q)
    \/ \E r \in OneReq : ConsultationCRUD_create_flush(r)
    \/ \E r \in OneReq : ConsultationCRUD_create_commit(r)
    \/ \E r \in OneReq, i \in 1..MaxHistoryPatients, k \in HistorySkips,
          n \in HistoryLimits :
         get_patient_consultations(r, i, k, n)
    \/ \E r \in OneReq, n \in HistoryLimits : recent_consultations(r, n)
    \/ \E r \in OneReq : get_db_close(r)

SpecHistory == Init /\ [][NextHistory]_vars

(***************************************************************************)
(* Claims on SpecHistory.                                                  *)
(***************************************************************************)
\* page is the window skip+1 .. skip+limit of the consultations ids in an
\* order of non-increasing consultation_date
IsNewestFirstPage(page, ids, skip, limit) ==
    LET date(c) == consultations[c].consultation_date
        left    == IF Cardinality(ids) > skip THEN Cardinality(ids) - skip ELSE 0
    IN  /\ Len(page) = Min(limit, left)
        /\ \A i \in DOMAIN page : page[i] \in ids
        /\ \A i, j \in DOMAIN page : i # j => page[i] # page[j]
        /\ \A i \in 1..(Len(page) - 1) : date(page[i]) >= date(page[i + 1])
        /\ \A i \in DOMAIN page :
             /\ Cardinality({c \in ids : date(c) > date(page[i])}) < skip + i
             /\ skip + i <= Cardinality({c \in ids : date(c) >= date(page[i])})

\* C19: the consultation listing of a patient answers with consultations of
\* that patient only, newest consultation_date first, the rows after the
\* first offset ones and at most limit of them; the recent listing answers
\* with the limit newest consultations of all patients in the same order.
C19_NewestFirst ==
    \A r \in Reqs :
      (req[r].pc = "return" /\ req[r].res.status = 200) =>
        /\ req[r].op = "get_patient_consultations" =>
             IsNewestFirstPage(req[r].res.consultations,
                               {c \in DOMAIN consultations :
                                  consultations[c].patient_id = req[r].arg.id},
                               req[r].arg.skip, req[r].arg.limit)
        /\ req[r].op = "recent_consultations" =>
             IsNewestFirstPage(req[r].res.consultations, DOMAIN consultations,
                               0, req[r].arg.limit)

\* the second page of a patient's history holds the older of their two
\* consultations, while the store holds a consultation of another patient
C19_Witness ==
    \E r \in Reqs :
      /\ req[r].op = "get_patient_consultations" /\ req[r].pc = "return"
      /\ req[r].res.status = 200
      /\ req[r].arg.skip = 1
      /\ Len(req[r].res.consultations) = 1
      /\ \E c \in DOMAIN consultations :
           /\ consultations[c].patient_id = req[r].arg.id
           /\ consultations[c].consultation_date >
                consultations[req[r].res.consultations[1]].consultation_date
      /\ \E c \in DOMAIN consultations :
           consultations[c].patient_id # req[r].arg.id


(***************************************************************************)
(* One caller at a time: registration and the health check over a store    *)
(* that may be unreachable at any statement.                               *)
(***************************************************************************)
\* patient rows this specification may insert
MaxOutagePatients == 3

NextOutage ==
    \/ \E r \in OneReq, d \in RegInputs :
         nextPatientId <= MaxOutagePatients /\ create_patient(r, d)
    \/ \E r \in OneReq, d \in RegInputs :
         nextPatientId <= MaxOutagePatients /\ create_patient_unreachable(r, d)
    \/ \E r \in OneReq : PatientCRUD_create(r)
    \/ \E r \in OneReq : PatientCRUD_create_unreachable(r)
    \/ \E r \in OneReq, up \in BOOLEAN : db_health(r, up)
    \/ \E r \in OneReq : get_db_close(r)

SpecOutage == Init /\ [][NextOutage]_vars

(***************************************************************************)
(* Claims on SpecOutage.                                                   *)
(***************************************************************************)
\* the answers of a validation error (422) and of a conflict (400)
ClientErrors == {400, 422}

\* C22: a request that failed because the store was unreachable is answered
\* with a signal distinct from a validation error and from a conflict; a
\* registration that hit the outage is never answered like a client error.
C22_OutageDistinct ==
    \A r \in Reqs :
      (/\ req[r].pc = "return"
       /\ "raised" \in DOMAIN req[r].loc
       /\ req[r].loc.raised = "OperationalError")
      => req[r].res.status \notin ClientErrors

\* what does hold: the health check answers 503 and the escaped exception of
\* the pre-check 500, both server-side signals
OutageDistinctElsewhere ==
    \A r \in Reqs :
      (/\ req[r].pc = "return"
       /\ "raised" \in DOMAIN req[r].loc
       /\ req[r].loc.raised = "OperationalError"
       /\ ~(req[r].op = "create_patient" /\ req[r].res.status = 400))
      => req[r].res.status \in {500, 503}

(***************************************************************************)
(* SpecBirth: one caller registers patients with and without a birth date, *)
(* through POST /patients and by calling PatientCRUD.create itself.        *)
(***************************************************************************)
MaxBirthPatients == 3

\* "2000-02-29", "2001-02-29", "2000-1-5", "29/02/2000", "2000-13-01"
BirthDateStrings ==
    {<<"2", "0", "0", "0", "-", "0", "2", "-", "2", "9">>,
     <<"2", "0", "0", "1", "-", "0", "2", "-", "2", "9">>,
     <<"2", "0", "0", "0", "-", "1", "-", "5">>,
     <<"2", "9", "/", "0", "2", "/", "2", "0", "0", "0">>,
     <<"2", "0", "0", "0", "-", "1", "3", "-", "0", "1">>}

BirthInputs ==
    LET plain == [first_name |-> <<"J">>, last_name |-> <<"o">>,
                  email |-> NULL, phone |-> NULL]
    IN  {plain} \cup
        {plain @@ [f \in {"date_of_birth"} |-> v] : v \in BirthDateStrings}

NextBirth ==
    \/ \E r \in OneReq, data \in BirthInputs :
         /\ nextPatientId <= MaxBirthPatients
         /\ create_patient(r, data)
    \/ \E r \in OneReq, data \in BirthInputs :
         /\ nextPatientId <= MaxBirthPatients
         /\ PatientCRUD_create_call(r, data)
    \/ \E r \in OneReq : PatientCRUD_create(r)
    \/ \E r \in OneReq : get_db_close(r)

SpecBirth == Init /\ [][NextBirth]_vars

\* the request carries a birth date string that strptime rejects
Malformed(r) ==
    /\ req[r].op \in {"create_patient", "PatientCRUD.create"}
    /\ "data" \in DOMAIN req[r].arg
    /\ "date_of_birth" \in DOMAIN req[r].arg.data
    /\ ~strptime(req[r].arg.data.date_of_birth).ok

\* C23: a creation handed a malformed birth date ends in a client error (a
\* 4xx answer of the handler, an exception of PatientCRUD.create) and leaves
\* the patient table as it was
C23_MalformedBirthDate ==
    [][\A r \in Reqs :
         (Malformed(r) /\ req[r].pc # "return" /\ req'[r].pc = "return")
         => /\ patients' = patients
            /\ IF req[r].op = "create_patient"
               THEN req'[r].res.status \in 400..499
               ELSE req'[r].res.raised
      ]_vars

\* what holds of the code: the handler's validator rejects a malformed birth
\* date with 422 and no row is written
MalformedRejectedByHandler ==
    [][\A r \in Reqs :
         (Malformed(r) /\ req[r].op = "create_patient"
          /\ req[r].pc # "return" /\ req'[r].pc = "return")
         => /\ patients' = patients
            /\ req'[r].res.status = 422
      ]_vars

\* a birth date that is stored is the date its string denotes
BirthDateParsed ==
    \A i \in DOMAIN patients :
      patients[i].date_of_birth \in
        {NULL, <<2000, 2, 29>>, <<2000, 1, 5>>}

(***************************************************************************)
(* Patient.to_dict: the derived fields bmi, bmi_category and age.          *)
(***************************************************************************)
\* the truth value of a numeric attribute: None and 0 are false
Truthy(x) == x # NullNumber /\ x # 0

\* round(x, 1) of the quotient num / den, counted in tenths: the nearest
\* tenth; when the quotient lies exactly between two tenths the float that
\* holds it may lie on either side, and either neighbour can result
round_tenths(num, den) ==
    LET q   == num \div den
        rem == num % den
    IN  IF 2 * rem < den THEN {q}
        ELSE IF 2 * rem > den THEN {q + 1}
        ELSE {q, q + 1}

\* Patient._calculate_bmi: weight / (height / 100) ** 2, in tenths
calculate_bmi(row) ==
    IF Truthy(row.weight) /\ Truthy(row.height) /\ row.height > 0
    THEN round_tenths(row.weight * 10000, row.height * row.height)
    ELSE {NullNumber}

Underweight == <<"Underweight">>
Normal == <<"Normal">>
Overweight == <<"Overweight">>
Obese == <<"Obese">>

\* _bmi_category, thresholds 18.5, 25.0 and 30.0 in tenths
bmi_category(bmi) ==
    IF bmi < 185 THEN Underweight
    ELSE IF bmi < 250 THEN Normal
    ELSE IF bmi < 300 THEN Overweight
    ELSE Obese

\* (month, day) < (month, day) of two dates, as Python orders tuples
MonthDayBefore(a, b) == a[2] < b[2] \/ (a[2] = b[2] /\ a[3] < b[3])

\* faulty variant: the birthday of the running year is not looked at
get_age_from_dob_year(row, today) ==
    IF row.date_of_birth # NULL
    THEN today[1] - row.date_of_birth[1]
    ELSE row.age

\* Patient._get_age_from_dob
get_age_from_dob(row, today) ==
    IF row.date_of_birth # NULL
    THEN today[1] - row.date_of_birth[1]
         - (IF MonthDayBefore(today, row.date_of_birth) THEN 1 ELSE 0)
    ELSE row.age

\* patient.to_dict() on a stored row, date.today() being `today`
Patient_to_dict(r, patient_id, today) ==
    /\ Free(r)
    /\ patient_id \in DOMAIN patients
    /\ LET row == patients[patient_id]
       IN  \E bmi \in calculate_bmi(row) :
             req' = [req EXCEPT ![r] =
               Returned("to_dict", [patient_id |-> patient_id, today |-> today],
                        [row |-> row],
                        [status |-> 0, raised |-> FALSE,
                         weight |-> row.weight, height |-> row.height,
                         bmi |-> bmi,
                         bmi_category |-> IF Truthy(bmi) THEN bmi_category(bmi)
                                          ELSE NULL,
                         age |-> get_age_from_dob(row, today)])]
    /\ UNCHANGED <<store, now>>

(***************************************************************************)
(* SpecBmi: patients are registered with a weight and a height, and read.  *)
(***************************************************************************)
MaxBmiPatients == 1

\* tenths of a kilogram: absent, 0, 0.4 kg, and the weights around the
\* thresholds for a height of 100 cm and of 200 cm
Weights == {0, 4, 184, 185, 249, 250, 299, 300, 738, 1000, 1200}
Heights == {0, 100, 200, 300}

BmiInputs ==
    LET plain == [first_name |-> <<"J">>, last_name |-> <<"o">>,
                  email |-> NULL, phone |-> NULL]
    IN  {plain}
        \cup {plain @@ [f \in {"weight"} |-> w] : w \in Weights}
        \cup {plain @@ [f \in {"height"} |-> h] : h \in Heights}
        \cup {plain @@ [f \in {"weight", "height"} |->
                          IF f = "weight" THEN w ELSE h] :
                w \in Weights, h \in Heights}

Today == <<2024, 2, 29>>

NextBmi ==
    \/ \E r \in OneReq, data \in BmiInputs :
         /\ nextPatientId <= MaxBmiPatients
         /\ create_patient(r, data)
    \/ \E r \in OneReq : PatientCRUD_create(r)
    \/ \E r \in OneReq, i \in 1..MaxBmiPatients : Patient_to_dict(r, i, Today)
    \/ \E r \in OneReq : get_db_close(r)

SpecBmi == Init /\ [][NextBmi]_vars

\* the row a finished to_dict was computed from
ReadRow(r) == req[r].loc.row

\* bmi is the quotient weight / (height / 100) ** 2 rounded to a nearest tenth
RoundedQuotient(bmi, row) ==
    LET num == row.weight * 10000
        den == row.height * row.height
    IN  /\ 2 * (bmi * den - num) <= den
        /\ 2 * (num - bmi * den) <= den

\* C24: bmi is present exactly when weight and height are both positive, is
\* then the quotient rounded to one decimal, and bmi_category is then the
\* class of the threshold table (boundary values in the upper class)
C24_BmiAndCategory ==
    \A r \in Reqs :
      (req[r].op = "to_dict" /\ req[r].pc = "return") =>
        LET row == ReadRow(r)
            res == req[r].res
        IN  /\ (res.bmi # NullNumber) <=> (row.weight > 0 /\ row.height > 0)
            /\ res.bmi # NullNumber =>
                 /\ RoundedQuotient(res.bmi, row)
                 /\ res.bmi_category = bmi_category(res.bmi)

\* what holds of the code: presence and value of bmi as claimed; the
\* category follows the table when bmi is at least 0.1 and is absent when
\* bmi is absent or rounds to 0.0
BmiCategoryWhenNonZero ==
    \A r \in Reqs :
      (req[r].op = "to_dict" /\ req[r].pc = "return") =>
        LET row == ReadRow(r)
            res == req[r].res
        IN  /\ (res.bmi # NullNumber) <=> (row.weight > 0 /\ row.height > 0)
            /\ res.bmi # NullNumber => RoundedQuotient(res.bmi, row)
            /\ res.bmi >= 1 => res.bmi_category = bmi_category(res.bmi)
            /\ res.bmi < 1 => res.bmi_category = NULL

\* the boundary values reach the upper class
BmiBoundariesReached ==
    \E r \in Reqs :
      /\ req[r].op = "to_dict" /\ req[r].pc = "return"
      /\ req[r].res.bmi = 250 /\ req[r].res.bmi_category = Overweight

(***************************************************************************)
(* SpecAge: patients are registered with a birth date and a stored age,    *)
(* and read by two callers on several calendar days.                       *)
(***************************************************************************)
MaxAgePatients == 1

\* "2000-02-29", "2000-1-5" and the malformed "2001-02-29"
AgeBirthDates ==
    {<<"2", "0", "0", "0", "-", "0", "2", "-", "2", "9">>,
     <<"2", "0", "0", "0", "-", "1", "-", "5">>,
     <<"2", "0", "0", "1", "-", "0", "2", "-", "2", "9">>}

StoredAges == {0, 30}

AgeInputs ==
    LET plain == [first_name |-> <<"J">>, last_name |-> <<"o">>,
                  email |-> NULL, phone |-> NULL]
        births == {plain} \cup
                  {plain @@ [f \in {"date_of_birth"} |-> v] : v \in AgeBirthDates}
    IN  births \cup {b @@ [f \in {"age"} |-> a] : b \in births, a \in StoredAges}

\* the days date.today() answers
Todays == {<<2024, 1, 4>>, <<2024, 2, 28>>, <<2024, 2, 29>>, <<2025, 1, 5>>}

NextAge ==
    \/ \E r \in OneReq, data \in AgeInputs :
         /\ nextPatientId <= MaxAgePatients
         /\ create_patient(r, data)
    \/ \E r \in OneReq : PatientCRUD_create(r)
    \/ \E r \in Reqs, i \in 1..MaxAgePatients, today \in Todays :
         Patient_to_dict(r, i, today)
    \/ \E r \in Reqs : get_db_close(r)

SpecAge == Init /\ [][NextAge]_vars

ReadAge(r) == req[r].op = "to_dict" /\ req[r].pc = "return"

SpecRelease ==
    /\ Init /\ [][NextOutage]_vars
    /\ \A r \in OneReq :
         /\ WF_vars(PatientCRUD_create(r) \/ PatientCRUD_create_unreachable(r))
         /\ WF_vars(get_db_close(r))

\* C26: a session opened for a request is eventually closed, whether the
\* handler returns or raises, and no request that is over holds an open one
C26_SessionReleased ==
    /\ [](\A r \in Reqs : req[r].pc = "done" => req[r].session = "closed")
    /\ \A r \in Reqs :
         (req[r].session = "open") ~> (req[r].session = "closed")

\* a request whose handler raised on an unreachable store is over
C26_Witness ==
    \E r \in Reqs :
      /\ req[r].pc = "done" /\ req[r].session = "closed"
      /\ req[r].op = "create_patient" /\ req[r].res.status = 500

(***************************************************************************)
(* SpecActive: two callers register, update, deactivate and diagnose       *)
(* concurrently.                                                           *)
(***************************************************************************)
MaxActivePatients == 1
MaxActiveConsultations == 1

ActiveInputs ==
    [first_name : Names, last_name : Names, email : {NULL}, phone : {NULL}]

ActiveUpdates == {("phone" :> <<"1">>)}

ActiveDiagnoses ==
    [model_ok : {TRUE}, patient_db_id : 1..MaxActivePatients,
     symptoms : {<<"fever">>}, severity : {Mild}]

NextActive ==
    \/ \E r \in Reqs, d \in ActiveInputs :
         nextPatientId <= MaxActivePatients /\ create_patient(r, d)
    \/ \E r \in Reqs : PatientCRUD_create(r)
    \/ \E r \in Reqs, i \in 1..MaxActivePatients, u \in ActiveUpdates :
         update_patient(r, i, u)
    \/ \E r \in Reqs : PatientCRUD_update_commit(r)
    \/ \E r \in Reqs, i \in 1..MaxActivePatients : delete_patient(r, i)
    \/ \E r \in Reqs : PatientCRUD_delete_commit(r)
    \/ \E r \in Reqs, q \in ActiveDiagnoses :
         nextConsultationId <= MaxActiveConsultations /\ diagnose_symptoms(r, q)
    \/ \E r \in Reqs : diagnose_ai(r, TRUE)
    \/ \E r \in Reqs : ConsultationCRUD_create_flush(r)
    \/ \E r \in Reqs : ConsultationCRUD_create_add(r)
    \/ \E r \in Reqs : ConsultationCRUD_create_commit(r)
    \/ \E r \in Reqs : get_db_close(r)

SpecActive == Init /\ [][NextActive]_vars

\* C27: once a patient is inactive it is inactive in every later state
C27_ActiveMonotone ==
    [][\A i \in DOMAIN patients :
         patients[i].is_active = FALSE
         => /\ i \in DOMAIN patients'
            /\ patients'[i].is_active = FALSE
      ]_vars

\* an update loaded the patient while active and commits after the
\* deactivation of another caller went through
C27_Witness ==
    \E r1, r2 \in Reqs :
      /\ req[r1].op = "update_patient" /\ req[r1].pc = "up_commit"
      /\ req[r1].loc.loaded.is_active = TRUE
      /\ req[r2].op = "delete_patient" /\ req[r2].pc = "return"
      /\ req[r2].res.status = 200
      /\ req[r2].arg.id = req[r1].arg.id
      /\ patients[req[r1].arg.id].is_active = FALSE

\* update r1 and deactivation r2 of one patient have both been answered 200
\* and neither session is closed yet
BothAnswered(r1, r2) ==
    /\ req[r1].op = "update_patient" /\ req[r1].pc = "return"
    /\ req[r1].res.status = 200
    /\ req[r2].op = "delete_patient" /\ req[r2].pc = "return"
    /\ req[r2].res.status = 200
    /\ req[r2].arg.id = req[r1].arg.id

\* C28: after an update and a deactivation of the same patient that ran
\* concurrently, in whatever order their steps interleaved, the patient is
\* inactive and holds the values the update set
C28_NoLostUpdate ==
    \A r1, r2 \in Reqs :
      BothAnswered(r1, r2) =>
        LET row == patients[req[r1].arg.id]
            set == set_values(req[r1].arg.upd)
        IN  /\ row.is_active = FALSE
            /\ \A f \in DOMAIN set : row[f] = set[f]

\* both have been answered: the patient is inactive and has the new phone
C28_Witness ==
    \E r1, r2 \in Reqs :
      /\ r1 # r2 /\ BothAnswered(r1, r2)
      /\ req[r2].loc.was_active = TRUE
      /\ patients[req[r1].arg.id].is_active = FALSE
      /\ patients[req[r1].arg.id].phone = <<"1">>

\* both requests read the patient before either committed: each holds the
\* row as it was, active and without the new values
BothLoadedFirst ==
    \E r1, r2 \in Reqs :
      /\ req[r1].op = "update_patient" /\ req[r1].pc = "up_commit"
      /\ req[r2].op = "delete_patient" /\ req[r2].pc = "del_commit"
      /\ req[r2].arg.id = req[r1].arg.id
      /\ patients[req[r1].arg.id].is_active = TRUE
      /\ patients[req[r1].arg.id].phone = NULL

(***************************************************************************)
(* SpecFrame: one caller registers, updates and deactivates patients whose *)
(* consultations carry symptoms, prescriptions and diagnostic tests, and   *)
(* reads the recent consultations and the statistics.                      *)
(***************************************************************************)
\* rows per table
MaxFrameRows == 1

FrameDiagnoses ==
    [model_ok : {TRUE}, patient_db_id : 1..MaxFrameRows,
     symptoms : {<<"fever">>}, severity : {Mild}]

NextFrame ==
    \/ \E r \in OneReq, d \in PlainInputs :
         nextPatientId <= MaxFrameRows /\ create_patient(r, d)
    \/ \E r \in OneReq : PatientCRUD_create(r)
    \/ \E r \in OneReq, i \in 1..MaxFrameRows, u \in PhoneUpdates :
         update_patient(r, i, u)
    \/ \E r \in OneReq : PatientCRUD_update_commit(r)
    \/ \E r \in OneReq, i \in 1..MaxFrameRows : delete_patient(r, i)
    \/ \E r \in OneReq : PatientCRUD_delete_commit(r)
    \/ \E r \in OneReq, q \in FrameDiagnoses :
         nextConsultationId <= MaxFrameRows /\ diagnose_symptoms(r, q)
    \/ \E r \in OneReq : diagnose_ai(r, TRUE)
    \/ \E r \in OneReq : ConsultationCRUD_create_flush(r)
    \/ \E r \in OneReq : ConsultationCRUD_create_add(r)
    \/ \E r \in OneReq : ConsultationCRUD_create_commit(r)
    \/ \E r \in OneReq, c \in 1..MaxFrameRows :
         nextPrescriptionId <= MaxFrameRows /\ add_prescription(r, c)
    \/ \E r \in OneReq, c \in 1..MaxFrameRows :
         nextDiagnosticTestId <= MaxFrameRows /\ add_diagnostic_test(r, c)
    \/ \E r \in OneReq, n \in {1, MaxFrameRows + 1} : recent_consultations(r, n)
    \/ \E r \in OneReq : get_stats(r)
    \/ \E r \in OneReq : get_db_close(r)

SpecFrame == Init /\ [][NextFrame]_vars

\* the consultations, symptoms, prescriptions and diagnostic tests
children == <<consultations, symptoms, prescriptions, diagnostic_tests>>

Elems(s) == {s[i] : i \in 1..Len(s)}

\* C29: no step of update_patient or delete_patient changes a consultation,
\* symptom, prescription or diagnostic-test row; the statistics count every
\* stored consultation and the recent listing returns it (within its limit),
\* whether its patient is active or not
C29_ChildrenUntouched ==
    /\ [][\A r \in Reqs :
            (/\ req'[r] # req[r]
             /\ req'[r].op \in {"update_patient", "delete_patient"})
            => children' = children]_vars
    /\ [](\A r \in Reqs :
            (req[r].pc = "return" /\ req[r].res.status = 200) =>
              /\ req[r].op = "get_stats" =>
                   req[r].res.total_consultations =
                     Cardinality(DOMAIN consultations)
              /\ (/\ req[r].op = "recent_consultations"
                  /\ req[r].arg.limit >= Cardinality(DOMAIN consultations))
                 => Elems(req[r].res.consultations) = DOMAIN consultations)

\* the recent listing has returned the consultation of a deactivated patient
\* that has a symptom, a prescription and a diagnostic test
C29_Witness ==
    \E r \in Reqs, c \in DOMAIN consultations :
      /\ req[r].op = "recent_consultations" /\ req[r].pc = "return"
      /\ c \in Elems(req[r].res.consultations)
      /\ patients[consultations[c].patient_id].is_active = FALSE
      /\ patients[consultations[c].patient_id].phone = <<"1">>
      /\ SymptomsOf(symptoms, c) # {}
      /\ \E x \in DOMAIN prescriptions : prescriptions[x].consultation_id = c
      /\ \E x \in DOMAIN diagnostic_tests :
           diagnostic_tests[x].consultation_id = c

(***************************************************************************)
(* SpecCount: two callers update and deactivate concurrently the patients  *)
(* one of them registers;                                                  *)
(* the listing is read while no other request is between its load and its *)
(* commit, so that its two statements (get_all, count) see one store.      *)
(***************************************************************************)
MaxCountPatients == 2

CountSkips == {0, 1}
CountLimits == {1, MaxListLimit}

\* no request stands between its first statement and its commit
Quiescent == \A r \in Reqs : req[r].pc \in {"idle", "done", "return"}

NextCount ==
    \/ \E r \in OneReq, d \in PlainInputs :
         nextPatientId <= MaxCountPatients /\ create_patient(r, d)
    \/ \E r \in OneReq : PatientCRUD_create(r)
    \/ \E r \in Reqs, i \in 1..MaxCountPatients, u \in PhoneUpdates :
         update_patient(r, i, u)
    \/ \E r \in Reqs : PatientCRUD_update_commit(r)
    \/ \E r \in Reqs, i \in 1..MaxCountPatients : delete_patient(r, i)
    \/ \E r \in Reqs : PatientCRUD_delete_commit(r)
    \/ \E r \in OneReq, k \in CountSkips, n \in CountLimits :
         Quiescent /\ list_patients(r, k, n)
    \/ \E r \in Reqs : get_db_close(r)

SpecCount == Init /\ [][NextCount]_vars

\* the number of active patients after the step minus the number before
ActiveDelta ==
    Cardinality({i \in DOMAIN patients' : patients'[i].is_active})
    - Cardinality({i \in DOMAIN patients : patients[i].is_active})

\* the rows skip+1 .. skip+limit of a listing of n rows
PageLength(n, skip, limit) ==
    IF skip >= n THEN 0 ELSE Min(limit, n - skip)

\* C30: in a quiescent state the count a listing reports is the number of
\* active patients and of the rows that pages over the whole store return (a
\* page of limit n at offset k holds the rows k+1..k+n of that many, one page
\* that covers the store holds every active patient once); the number
\* changes by +1 when a registration succeeds, by -1 when a deactivation
\* commits on a patient that is active, and by 0 in every other step, so on
\* update and on deactivating an inactive patient
C30_CountConsistent ==
    [][/\ \A r \in Reqs :
            (Quiescent /\ Responds(r, "list_patients")
             /\ req'[r].res.status = 200)
            => LET res == req'[r].res
                   n   == Cardinality({i \in DOMAIN patients :
                                         patients[i].is_active})
               IN  /\ res.total = n
                   /\ Len(res.patients) = PageLength(n, res.skip, res.limit)
                   /\ (res.skip = 0 /\ res.limit >= n)
                      => /\ Elems(res.patients) =
                              {i \in DOMAIN patients : patients[i].is_active}
                         /\ Cardinality(Elems(res.patients)) = n
       /\ ActiveDelta =
            IF \E r \in Reqs : Responds(r, "create_patient")
                               /\ req'[r].res.status = 201
            THEN 1
            ELSE IF \E r \in Reqs :
                      /\ req[r].pc = "del_commit" /\ req'[r].pc = "return"
                      /\ patients[req[r].arg.id].is_active
            THEN -1
            ELSE 0
      ]_vars

\* a listing of the whole store counts one patient after two registrations,
\* an update and two deactivations of the same patient
C30_Witness ==
    \E r1, r2 \in Reqs :
      /\ r1 # r2
      /\ req[r1].op = "list_patients" /\ req[r1].pc = "return"
      /\ req[r1].res.status = 200 /\ req[r1].res.total = 1
      /\ req[r1].res.skip = 0 /\ Len(req[r1].res.patients) = 1
      /\ Cardinality(DOMAIN patients) = 2
      /\ \E i \in DOMAIN patients :
           ~patients[i].is_active /\ patients[i].phone = <<"1">>
      /\ req[r2].op = "delete_patient" /\ req[r2].pc = "return"
      /\ req[r2].res.status = 200 /\ req[r2].loc.was_active = FALSE

=============================================================================
